---- MODULE Spec2Model ----
(***************************************************************************)
(* Model of the skylar-drone board pipeline (src/src/lib/dataCleaner.js):  *)
(* cleanBoardData, cleanValue / normalizeDate / normalizeNumber, and       *)
(* dataToContext with its summary builders.                                *)
(*                                                                         *)
(* JavaScript strings are modelled as sequences of characters, a character *)
(* being a one-character TLA+ string.  The rupee sign U+20B9 is written    *)
(* "Rs" (one character of the model).  null and undefined are two          *)
(* distinguished one-element sequences whose element is no character.      *)
(***************************************************************************)
EXTENDS Integers, Sequences, FiniteSets, TLC

VARIABLES
    cvText,     \* cleanValue: the raw cell text passed in
    cvTitle,    \* cleanValue: the column title passed in
    cvOut,      \* cleanValue: the value returned
    cvPc,       \* "ready" before the call, "done" after it
    dealsRaw,       \* the board snapshot the caller holds and passes in
    dealsCleaned,   \* what the last cleanBoardData call returned or threw
    dealsContext,   \* what the last dataToContext call returned or threw
    pc,         \* the caller's position in the pipeline
    history,    \* the outcomes of the pipeline runs completed so far
    statsMissing,       \* completeness: the missingFields it is computed from
    statsTotal,         \* completeness: the totalFields it is computed from
    statsCompleteness,  \* completeness: the value computed
    statsPc,            \* "ready" before the computation, "done" after it
    modelIndex,             \* BIAgent: this.modelIndex
    conversationHistory,    \* BIAgent: this.conversationHistory
    dataContext,            \* BIAgent: this.dataContext
    asks,                   \* BIAgent: the ask calls, each with its position
    sumBoard,   \* dataToContext on its own: the cleaned board passed in
    sumDoc,     \* dataToContext on its own: what the call returned or threw
    sumPc,      \* "ready" before the call, "done" after it
    fetchPages,     \* MondayClient: the pages the server holds for the board
    fetchRequests,  \* MondayClient: the requests fetchBoardData has sent
    allItems,       \* fetchBoardData: allItems
    cursor,         \* fetchBoardData: cursor
    fetchPc,        \* fetchBoardData: its position
    fetchResult     \* fetchBoardData: what the call returned or threw

nvars == <<cvText, cvTitle, cvOut, cvPc>>
pvars == <<dealsRaw, dealsCleaned, dealsContext, pc, history>>
svars == <<statsMissing, statsTotal, statsCompleteness, statsPc>>
avars == <<modelIndex, conversationHistory, dataContext, asks>>
uvars == <<sumBoard, sumDoc, sumPc>>
fvars == <<fetchPages, fetchRequests, allItems, cursor, fetchPc, fetchResult>>
vars == <<nvars, pvars, svars, avars, uvars, fvars>>

-----------------------------------------------------------------------------
(* JavaScript values *)

NULL == <<"<null>">>
UNDEFINED == <<"<undefined>">>

IsNullish(v) == v = NULL \/ v = UNDEFINED

\* the element of a one-element set; Only({F(x) : x \in {e}}) is F(e) with e
\* evaluated once
Only(S) == CHOOSE x \in S : TRUE

\* !v for the values of this program: null, undefined and '' are falsy
Falsy(v) == IsNullish(v) \/ v = <<>>

-----------------------------------------------------------------------------
(* Characters and strings *)

Digits == {"0", "1", "2", "3", "4", "5", "6", "7", "8", "9"}

DigitVal(c) ==
    CASE c = "0" -> 0 [] c = "1" -> 1 [] c = "2" -> 2 [] c = "3" -> 3
      [] c = "4" -> 4 [] c = "5" -> 5 [] c = "6" -> 6 [] c = "7" -> 7
      [] c = "8" -> 8 [] c = "9" -> 9

DigitChar(n) ==
    CASE n = 0 -> "0" [] n = 1 -> "1" [] n = 2 -> "2" [] n = 3 -> "3"
      [] n = 4 -> "4" [] n = 5 -> "5" [] n = 6 -> "6" [] n = 7 -> "7"
      [] n = 8 -> "8" [] n = 9 -> "9"

\* the white space of the model's alphabet (\s, and what trim() removes)
WhiteSpace == {" "}

UpperCase == <<"A", "B", "C", "D", "E", "F", "G", "H", "I", "J", "K", "L", "M",
               "N", "O", "P", "Q", "R", "S", "T", "U", "V", "W", "X", "Y", "Z">>
LowerCase == <<"a", "b", "c", "d", "e", "f", "g", "h", "i", "j", "k", "l", "m",
               "n", "o", "p", "q", "r", "s", "t", "u", "v", "w", "x", "y", "z">>

LowerChar(c) ==
    IF \E i \in 1..26 : UpperCase[i] = c
    THEN LowerCase[CHOOSE i \in 1..26 : UpperCase[i] = c]
    ELSE c

\* String.prototype.toLowerCase
ToLowerCase(s) == [i \in 1..Len(s) |-> LowerChar(s[i])]

\* String.prototype.includes
Includes(s, p) ==
    \E i \in 0..(Len(s) - Len(p)) : SubSeq(s, i + 1, i + Len(p)) = p

\* String.prototype.startsWith
StartsWith(s, p) == Len(s) >= Len(p) /\ SubSeq(s, 1, Len(p)) = p

AllDigits(s) == \A i \in 1..Len(s) : s[i] \in Digits

RECURSIVE TrimStart(_)
TrimStart(s) ==
    IF s # <<>> /\ Head(s) \in WhiteSpace THEN TrimStart(Tail(s)) ELSE s

RECURSIVE TrimEnd(_)
TrimEnd(s) ==
    IF s # <<>> /\ s[Len(s)] \in WhiteSpace
    THEN TrimEnd(SubSeq(s, 1, Len(s) - 1))
    ELSE s

\* String.prototype.trim
Trim(s) == TrimEnd(TrimStart(s))

\* String.prototype.padStart(2, '0')
PadStart2(s) == IF Len(s) < 2 THEN <<"0">> \o s ELSE s

\* String.prototype.substring(0, n)
Substring0(s, n) == SubSeq(s, 1, IF n < Len(s) THEN n ELSE Len(s))

RECURSIVE Pow10(_)
Pow10(n) == IF n = 0 THEN 1 ELSE 10 * Pow10(n - 1)

\* the decimal digits of a natural number, no leading zeros
RECURSIVE NatToString(_)
NatToString(n) ==
    IF n < 10 THEN <<DigitChar(n)>>
    ELSE NatToString(n \div 10) \o <<DigitChar(n % 10)>>

\* the value of a (possibly empty) run of digits
RECURSIVE DigitsToNat(_)
DigitsToNat(s) ==
    IF s = <<>> THEN 0
    ELSE 10 * DigitsToNat(SubSeq(s, 1, Len(s) - 1)) + DigitVal(s[Len(s)])

\* the longest run of digits at the start of s
RECURSIVE DigitPrefix(_)
DigitPrefix(s) ==
    IF s # <<>> /\ Head(s) \in Digits
    THEN <<Head(s)>> \o DigitPrefix(Tail(s))
    ELSE <<>>

-----------------------------------------------------------------------------
(* parseFloat and Number.prototype.toString.  A number is kept exactly, as  *)
(* (-1)^neg * mant / 10^scale.  The alphabet of the model has no exponent   *)
(* letter and the bounded lengths keep every value between 1e-6 and 1e21,   *)
(* where toString prints plain decimal notation.                            *)

NaN == [nan |-> TRUE, neg |-> FALSE, mant |-> 0, scale |-> 0]

\* parseFloat: the longest prefix [+-]? (digits+ ('.' digits* )? | '.' digits+)
ParseDecimal(s) ==
    LET signed == s # <<>> /\ Head(s) \in {"+", "-"}
        body == IF signed THEN Tail(s) ELSE s
        ip == DigitPrefix(body)
        rest == SubSeq(body, Len(ip) + 1, Len(body))
        fp == IF rest # <<>> /\ Head(rest) = "."
              THEN DigitPrefix(Tail(rest))
              ELSE <<>>
    IN  IF IsNullish(s) \/ (ip = <<>> /\ fp = <<>>)
        THEN NaN
        ELSE [nan |-> FALSE,
              neg |-> signed /\ Head(s) = "-",
              mant |-> DigitsToNat(ip \o fp),
              scale |-> Len(fp)]

ParseFloat(s) == Only({ParseDecimal(x) : x \in {s}})

\* drop the trailing zeros of the fraction
RECURSIVE Reduce(_, _)
Reduce(mant, scale) ==
    IF scale > 0 /\ mant % 10 = 0
    THEN Reduce(mant \div 10, scale - 1)
    ELSE <<mant, scale>>

RECURSIVE ZeroPad(_, _)
ZeroPad(s, n) == IF Len(s) < n THEN ZeroPad(<<"0">> \o s, n) ELSE s

\* Number.prototype.toString of a finite number
NumberToString(num) ==
    LET r == Reduce(num.mant, num.scale)
        m == r[1]
        k == r[2]
        int == NatToString(m \div Pow10(k))
        frac == IF k = 0 THEN <<>>
                ELSE <<".">> \o ZeroPad(NatToString(m % Pow10(k)), k)
    IN  (IF num.neg /\ m # 0 THEN <<"-">> ELSE <<>>) \o int \o frac

-----------------------------------------------------------------------------
(* normalizeDate, normalizeNumber, cleanValue *)

DateSeps == {"/", "-"}

\* /^\d{4}-\d{2}-\d{2}/.test(str)
IsoPrefix(str) ==
    /\ Len(str) >= 10
    /\ AllDigits(SubSeq(str, 1, 4))
    /\ str[5] = "-"
    /\ AllDigits(SubSeq(str, 6, 7))
    /\ str[8] = "-"
    /\ AllDigits(SubSeq(str, 9, 10))

\* str.match(/^(\d{1,2})[\/\-](\d{1,2})[\/\-](\d{4})$/): the set of ways the
\* pattern matches, as the lengths of its first two groups (at most one way)
SlashDateSplits(str) ==
    {ij \in (1..2) \X (1..2) :
        /\ Len(str) = ij[1] + ij[2] + 6
        /\ AllDigits(SubSeq(str, 1, ij[1]))
        /\ str[ij[1] + 1] \in DateSeps
        /\ AllDigits(SubSeq(str, ij[1] + 2, ij[1] + ij[2] + 1))
        /\ str[ij[1] + ij[2] + 2] \in DateSeps
        /\ AllDigits(SubSeq(str, ij[1] + ij[2] + 3, ij[1] + ij[2] + 6))}

\* the three capture groups of the match
SlashDateGroups(str) ==
    LET ij == CHOOSE x \in SlashDateSplits(str) : TRUE
    IN  <<SubSeq(str, 1, ij[1]),
          SubSeq(str, ij[1] + 2, ij[1] + ij[2] + 1),
          SubSeq(str, ij[1] + ij[2] + 3, ij[1] + ij[2] + 6)>>

\* a normalizeDate whose first pattern is read month-first
normalizeDate_MonthFirst(str) ==
    IF Falsy(str) THEN NULL
    ELSE IF IsoPrefix(str) THEN Substring0(str, 10)
    ELSE IF SlashDateSplits(str) # {}
         THEN LET mdy == SlashDateGroups(str)
              IN  mdy[3] \o <<"-">> \o PadStart2(mdy[1]) \o <<"-">> \o PadStart2(mdy[2])
    ELSE str

normalizeDate(str) ==
    IF Falsy(str) THEN NULL
    ELSE IF IsoPrefix(str) THEN Substring0(str, 10)
    ELSE IF SlashDateSplits(str) # {}
         THEN LET dmy == SlashDateGroups(str)
              IN  dmy[3] \o <<"-">> \o PadStart2(dmy[2]) \o <<"-">> \o PadStart2(dmy[1])
    ELSE IF SlashDateSplits(str) # {}
         THEN LET mdy == SlashDateGroups(str)
              IN  mdy[3] \o <<"-">> \o PadStart2(mdy[1]) \o <<"-">> \o PadStart2(mdy[2])
    ELSE str

\* the characters of /[Rs$,\s]/ (Rs: the rupee sign)
StripChars == {"Rs", "$", ","} \cup WhiteSpace

\* str.replace(/[Rs$,\s]/g, '')
StripCurrency(str) == SelectSeq(str, LAMBDA c : c \notin StripChars)

\* a normalizeNumber that parses the text as it stands
normalizeNumber_NoStrip(str) ==
    IF Falsy(str) THEN NULL
    ELSE LET num == ParseFloat(str)
         IN  IF num.nan THEN str ELSE NumberToString(num)

normalizeNumber(str) ==
    IF Falsy(str) THEN NULL
    ELSE LET cleaned == StripCurrency(str)
             num == ParseFloat(cleaned)
         IN  IF num.nan THEN str ELSE NumberToString(num)

ErrorSentinel == <<"#", "V", "A", "L", "U", "E", "!">>

Kw_date == <<"d", "a", "t", "e">>
Kw_amount == <<"a", "m", "o", "u", "n", "t">>
Kw_value == <<"v", "a", "l", "u", "e">>
Kw_billed == <<"b", "i", "l", "l", "e", "d">>
Kw_collected == <<"c", "o", "l", "l", "e", "c", "t", "e", "d">>
Kw_receivable == <<"r", "e", "c", "e", "i", "v", "a", "b", "l", "e">>

IsDateTitle(columnTitle) == Includes(ToLowerCase(columnTitle), Kw_date)

IsNumericTitle(columnTitle) ==
    LET lower == ToLowerCase(columnTitle)
    IN  \/ Includes(lower, Kw_amount)
        \/ Includes(lower, Kw_value)
        \/ Includes(lower, Kw_billed)
        \/ Includes(lower, Kw_collected)
        \/ Includes(lower, Kw_receivable)

cleanValue(text, columnTitle) ==
    IF text = NULL \/ text = UNDEFINED \/ text = <<>> THEN NULL
    ELSE IF text = ErrorSentinel THEN NULL
    ELSE LET t == Trim(text)
         IN  IF t = <<>> THEN NULL
             ELSE IF IsDateTitle(columnTitle) THEN normalizeDate(t)
             ELSE IF IsNumericTitle(columnTitle) THEN normalizeNumber(t)
             ELSE t

-----------------------------------------------------------------------------
(* JavaScript plain objects ({}): the own properties as a list of           *)
(* <<key, value>> in property order.  Integer-like keys come first, in      *)
(* ascending order, then the other keys in order of creation; a lookup that *)
(* finds no own property falls through to Object.prototype.                 *)

ObjKeys(o) == [i \in 1..Len(o) |-> o[i][1]]

ObjHas(o, k) == \E i \in 1..Len(o) : o[i][1] = k

\* names of Object.prototype members (two of them stand for all)
ObjectPrototypeKeys ==
    {<<"c", "o", "n", "s", "t", "r", "u", "c", "t", "o", "r">>,
     <<"v", "a", "l", "u", "e", "O", "f">>}

\* what a lookup of an Object.prototype member yields: a function
INHERITED == <<"<inherited function>">>

\* o[k]
ObjGet(o, k) ==
    IF ObjHas(o, k) THEN o[CHOOSE i \in 1..Len(o) : o[i][1] = k][2]
    ELSE IF k \in ObjectPrototypeKeys THEN INHERITED
    ELSE UNDEFINED

\* a canonical array index: "0", or digits with no leading zero
IsArrayIndex(k) ==
    /\ k # <<>>
    /\ AllDigits(k)
    /\ (Len(k) = 1 \/ k[1] # "0")

\* o[k] = v
ObjSet(o, k, v) ==
    IF ObjHas(o, k)
    THEN [i \in 1..Len(o) |-> IF o[i][1] = k THEN <<k, v>> ELSE o[i]]
    ELSE IF IsArrayIndex(k)
    THEN LET below == Cardinality({i \in 1..Len(o) :
                          IsArrayIndex(o[i][1])
                              /\ DigitsToNat(o[i][1]) < DigitsToNat(k)})
         IN  SubSeq(o, 1, below) \o <<<<k, v>>>> \o SubSeq(o, below + 1, Len(o))
    ELSE Append(o, <<k, v>>)

-----------------------------------------------------------------------------
(* cleanBoardData *)

K_id == <<"_", "i", "d">>
K_name == <<"_", "n", "a", "m", "e">>
T_Name == <<"N", "a", "m", "e">>
S_empty == <<"e", "m", "p", "t", "y">>

\* the board snapshot handed to cleanBoardData: `present` holds the names of
\* the fields the object carries; an absent field destructures to undefined
HasField(boardData, f) == f \in boardData.present

\* colMap after columns.forEach(c => colMap[c.id] = c.title)
RECURSIVE BuildColMap(_, _)
BuildColMap(columns, colMap) ==
    IF columns = <<>> THEN colMap
    ELSE BuildColMap(Tail(columns),
                     ObjSet(colMap, Head(columns).id, Head(columns).title))

\* colMap[cv.id] || cv.id
TitleOf(colMap, id) ==
    IF Falsy(ObjGet(colMap, id)) THEN id ELSE ObjGet(colMap, id)

\* row after item.column_values.forEach(cv => row[title] = cleanValue(...))
RECURSIVE FillRow(_, _, _)
FillRow(column_values, colMap, row) ==
    IF column_values = <<>> THEN row
    ELSE LET cv == Head(column_values)
             title == TitleOf(colMap, cv.id)
         IN  FillRow(Tail(column_values), colMap,
                     ObjSet(row, title, cleanValue(cv.text, title)))

\* cleanValue(text, columnTitle) gets as far as columnTitle.toLowerCase()
ReadsTitle(text) ==
    ~(IsNullish(text) \/ text = <<>> \/ text = ErrorSentinel \/ Trim(text) = <<>>)

\* a field of the item makes cleanValue throw: colMap[cv.id] is a member
\* inherited from Object.prototype, which has no toLowerCase
TitleThrows(item, colMap) ==
    \E k \in 1..Len(item.column_values) :
        /\ TitleOf(colMap, item.column_values[k].id) = INHERITED
        /\ ReadsTitle(item.column_values[k].text)

RowOf(item, colMap) ==
    FillRow(item.column_values, colMap,
            <<<<K_id, item.id>>, <<K_name, item.name>>>>)

\* Object.entries(row).filter(([k]) => !k.startsWith('_'))
ValueEntries(row) == SelectSeq(row, LAMBDA e : ~StartsWith(e[1], <<"_">>))

IsMissing(v) == v = NULL \/ v = <<>> \/ v = UNDEFINED

AllEmpty(row) ==
    \A i \in 1..Len(ValueEntries(row)) : IsMissing(ValueEntries(row)[i][2])

\* an empty-row rule that does not look at the name
IsEmptyRow_AnyName(row) == AllEmpty(row)

\* !row._name && allEmpty
IsEmptyRow(row) == Falsy(ObjGet(row, K_name)) /\ AllEmpty(row)

\* vals.some(([k, v]) => typeof v === 'string' && v === k)
IsHeader(row) ==
    \E i \in 1..Len(ValueEntries(row)) :
        LET e == ValueEntries(row)[i]
        IN  ~IsNullish(e[2]) /\ e[2] = e[1]

\* the issue with the record's name interpolated as it is
HeaderIssue_NameAsIs(row) ==
    [kind |-> "header-row", item |-> ObjGet(row, K_name),
     n |-> 0, total |-> 0, pct |-> <<>>]

HeaderIssue(row) ==
    [kind |-> "header-row",
     item |-> IF Falsy(ObjGet(row, K_name)) THEN S_empty ELSE ObjGet(row, K_name),
     n |-> 0, total |-> 0, pct |-> <<>>]

\* a filter whose header branch leaves removedRows as it is
RECURSIVE FilterRows_HeaderUncounted(_, _)
FilterRows_HeaderUncounted(rows, acc) ==
    IF rows = <<>> THEN acc
    ELSE LET row == Head(rows)
         IN  IF IsEmptyRow(row)
             THEN FilterRows_HeaderUncounted(Tail(rows),
                      [acc EXCEPT !.removedRows = @ + 1])
             ELSE IF IsHeader(row)
             THEN FilterRows_HeaderUncounted(Tail(rows),
                      [acc EXCEPT !.qualityIssues = Append(@, HeaderIssue(row))])
             ELSE FilterRows_HeaderUncounted(Tail(rows),
                      [acc EXCEPT !.cleaned = Append(@, row)])

\* rows.filter(...): acc carries the rows kept so far, removedRows and
\* qualityIssues
RECURSIVE FilterRows(_, _)
FilterRows(rows, acc) ==
    IF rows = <<>> THEN acc
    ELSE LET row == Head(rows)
         IN  IF IsEmptyRow(row)
             THEN FilterRows(Tail(rows),
                      [acc EXCEPT !.removedRows = @ + 1])
             ELSE IF IsHeader(row)
             THEN FilterRows(Tail(rows),
                      [acc EXCEPT !.removedRows = @ + 1,
                                  !.qualityIssues = Append(@, HeaderIssue(row))])
             ELSE FilterRows(Tail(rows),
                      [acc EXCEPT !.cleaned = Append(@, row)])

\* a field count taken over the rows before the filter
totalFieldsOf_AllRows(rows, cleaned, colMap) == Len(rows) * Len(ObjKeys(colMap))

\* cleaned.length * Object.keys(colMap).length
totalFieldsOf(rows, cleaned, colMap) == Len(cleaned) * Len(ObjKeys(colMap))

\* the non-identity entries of a row that hold no value
MissingIn(row) ==
    Cardinality({i \in 1..Len(row) :
        ~StartsWith(row[i][1], <<"_">>) /\ IsMissing(row[i][2])})

RECURSIVE CountMissing(_)
CountMissing(cleaned) ==
    IF cleaned = <<>> THEN 0
    ELSE MissingIn(Head(cleaned)) + CountMissing(Tail(cleaned))

\* (num / den * 100).toFixed(1) for integers num >= 0, den >= 0, not both 0
S_Infinity == <<"I", "n", "f", "i", "n", "i", "t", "y">>
PercentFixed1(num, den) ==
    IF den = 0 THEN S_Infinity
    ELSE LET tenths == (2000 * num + den) \div (2 * den)
         IN  NatToString(tenths \div 10) \o <<".">> \o NatToString(tenths % 10)

\* ((1 - missingFields / totalFields) * 100).toFixed(1), totalFields > 0
CompletenessFixed1(missingFields, totalFields) ==
    IF missingFields <= totalFields
    THEN PercentFixed1(totalFields - missingFields, totalFields)
    ELSE LET tenths == (2000 * (missingFields - totalFields) + totalFields)
                           \div (2 * totalFields)
         IN  <<"-">> \o NatToString(tenths \div 10) \o <<".">> \o NatToString(tenths % 10)

S_100 == <<"1", "0", "0">>

\* a completeness cut off after its first decimal
completeness_Truncated(missingFields, totalFields) ==
    IF totalFields = 0 THEN S_100
    ELSE IF missingFields <= totalFields
    THEN NatToString(((1000 * (totalFields - missingFields)) \div totalFields) \div 10)
            \o <<".">>
            \o NatToString(((1000 * (totalFields - missingFields)) \div totalFields) % 10)
    ELSE CompletenessFixed1(missingFields, totalFields)

\* totalFields ? ((1 - missingFields / totalFields) * 100).toFixed(1) : '100'
completeness(missingFields, totalFields) ==
    IF totalFields # 0
    THEN CompletenessFixed1(missingFields, totalFields)
    ELSE S_100

RemovedIssue(removedRows) ==
    [kind |-> "removed-rows", item |-> <<>>, n |-> removedRows, total |-> 0,
     pct |-> <<>>]

MissingIssue(missingFields, totalFields) ==
    [kind |-> "missing-fields", item |-> <<>>, n |-> missingFields,
     total |-> totalFields, pct |-> PercentFixed1(missingFields, totalFields)]

\* issues with the missing-fields note put before the removed-rows note
qualityIssuesOf_MissingFirst(perRow, removedRows, missingFields, totalFields) ==
    perRow
        \o (IF missingFields > 0
            THEN <<MissingIssue(missingFields, totalFields)>> ELSE <<>>)
        \o (IF removedRows > 0 THEN <<RemovedIssue(removedRows)>> ELSE <<>>)

\* qualityIssues once the two notes have been pushed after the per-row ones
qualityIssuesOf(perRow, removedRows, missingFields, totalFields) ==
    perRow
        \o (IF removedRows > 0 THEN <<RemovedIssue(removedRows)>> ELSE <<>>)
        \o (IF missingFields > 0
            THEN <<MissingIssue(missingFields, totalFields)>> ELSE <<>>)

\* columns.map(c => c.title).filter(t => t !== 'Name')
ColumnTitles(columns) ==
    SelectSeq([i \in 1..Len(columns) |-> columns[i].title],
              LAMBDA t : t # T_Name)

NoStats ==
    [totalRows |-> 0, cleanedRows |-> 0, removedRows |-> 0, missingFields |-> 0,
     totalFields |-> 0, completeness |-> <<>>]

\* the call ended by throwing `error`; nothing is returned
Threw(error) ==
    [threw |-> TRUE, error |-> error, boardName |-> <<>>, columns |-> <<>>,
     data |-> <<>>, stats |-> NoStats, qualityIssues |-> <<>>]

\* cleanBoardData(boardData): what the call returns or throws
cleanBoardData(boardData) ==
    IF ~HasField(boardData, "columns") \/ ~HasField(boardData, "items")
    THEN Threw("TypeError")
    ELSE IF \E i \in 1..Len(boardData.items) :
                TitleThrows(boardData.items[i], BuildColMap(boardData.columns, <<>>))
    THEN Threw("TypeError")
    ELSE
    LET columns == boardData.columns
        items == boardData.items
        colMap == BuildColMap(columns, <<>>)
        rows == [i \in 1..Len(items) |-> RowOf(items[i], colMap)]
        f == FilterRows(rows, [cleaned |-> <<>>, removedRows |-> 0,
                               qualityIssues |-> <<>>])
        cleaned == f.cleaned
        removedRows == f.removedRows
        totalFields == totalFieldsOf(rows, cleaned, colMap)
        missingFields == CountMissing(cleaned)
    IN  [threw |-> FALSE,
         error |-> "",
         boardName |-> IF HasField(boardData, "name") THEN boardData.name
                       ELSE UNDEFINED,
         columns |-> ColumnTitles(columns),
         data |-> cleaned,
         stats |-> [totalRows |-> Len(items),
                    cleanedRows |-> Len(cleaned),
                    removedRows |-> removedRows,
                    missingFields |-> missingFields,
                    totalFields |-> totalFields,
                    completeness |-> completeness(missingFields, totalFields)],
         qualityIssues |-> qualityIssuesOf(f.qualityIssues, removedRows,
                                           missingFields, totalFields)]

-----------------------------------------------------------------------------
(* Numbers of the summaries: exact decimals m / 10^k, m an integer.  The    *)
(* amounts of the model are whole numbers whose sums and quotients stay     *)
(* clear of the halfway cases on which toFixed depends on the binary value. *)

Zero == [m |-> 0, k |-> 0]

\* parseFloat(v) || 0
NumOrZero(v) ==
    Only({IF pf.nan THEN Zero
          ELSE [m |-> IF pf.neg THEN 0 - pf.mant ELSE pf.mant, k |-> pf.scale] :
          pf \in {ParseFloat(v)}})

MaxOf(a, b) == IF a >= b THEN a ELSE b

AddNum(a, b) ==
    LET k == MaxOf(a.k, b.k)
    IN  [m |-> a.m * Pow10(k - a.k) + b.m * Pow10(k - b.k), k |-> k]

\* a > b, a >= b
GreaterNum(a, b) == a.m * Pow10(b.k) > b.m * Pow10(a.k)
AtLeast(a, n) == a.m >= n * Pow10(a.k)

Abs(x) == IF x < 0 THEN 0 - x ELSE x

\* (num / den).toFixed(digits) for integers num and den > 0
FixedDigits(neg, q, digits) ==
    (IF neg THEN <<"-">> ELSE <<>>)
        \o NatToString(q \div Pow10(digits))
        \o (IF digits = 0 THEN <<>>
            ELSE <<".">> \o ZeroPad(NatToString(q % Pow10(digits)), digits))

ToFixed(num, den, digits) ==
    Only({FixedDigits(nd[1] < 0,
                      (2 * Abs(nd[1]) * Pow10(digits) + nd[2]) \div (2 * nd[2]),
                      digits) : nd \in {<<num, den>>}})

FormatAmount(n) ==
    IF AtLeast(n, 10000000)
    THEN ToFixed(n.m, Pow10(n.k) * 10000000, 2) \o <<" ", "C", "r">>
    ELSE IF AtLeast(n, 100000)
    THEN ToFixed(n.m, Pow10(n.k) * 100000, 2) \o <<" ", "L">>
    ELSE IF AtLeast(n, 1000)
    THEN ToFixed(n.m, Pow10(n.k) * 1000, 1) \o <<"K">>
    ELSE ToFixed(n.m, Pow10(n.k), 0)

\* formatNum(n)
formatNum(n) == Only({FormatAmount(x) : x \in {n}})

-----------------------------------------------------------------------------
(* findCol, groupBy, sumField *)

\* keys.find(k => patterns.some(p => k.toLowerCase().includes(p))) || null
findCol(keys, patterns) ==
    LET hits == {i \in 1..Len(keys) :
                    \E p \in patterns : Includes(ToLowerCase(keys[i]), p)}
        first == CHOOSE i \in hits : \A j \in hits : i <= j
    IN  IF hits = {} \/ Falsy(keys[first]) THEN NULL ELSE keys[first]

S_Unknown == <<"U", "n", "k", "n", "o", "w", "n">>

\* a key that passes over the name
GroupKey_NoName(row, key) ==
    IF ~Falsy(ObjGet(row, key)) THEN ObjGet(row, key) ELSE S_Unknown

\* row[key] || row._name || 'Unknown'
GroupKey(row, key) ==
    IF ~Falsy(ObjGet(row, key)) THEN ObjGet(row, key)
    ELSE IF ~Falsy(ObjGet(row, K_name)) THEN ObjGet(row, K_name)
    ELSE S_Unknown

\* groups[k] of an object whose own values are arrays
GroupRows(groups, k) == groups[CHOOSE i \in 1..Len(groups) : groups[i][1] = k][2]

\* data.forEach(row => { if (!groups[val]) groups[val] = []; groups[val].push(row) })
\* An own property is an array, which is truthy; a key that names a member of
\* Object.prototype finds that member, which is truthy and has no push: the
\* call throws a TypeError.
RECURSIVE GroupInto(_, _, _)
GroupInto(data, key, groups) ==
    IF data = <<>> THEN [threw |-> FALSE, groups |-> groups]
    ELSE LET row == Head(data)
             val == GroupKey(row, key)
         IN  IF ObjHas(groups, val)
             THEN GroupInto(Tail(data), key,
                      ObjSet(groups, val, Append(GroupRows(groups, val), row)))
             ELSE IF val \in ObjectPrototypeKeys
             THEN [threw |-> TRUE, groups |-> groups]
             ELSE GroupInto(Tail(data), key, ObjSet(groups, val, <<row>>))

groupBy(data, key) == GroupInto(data, key, <<>>)

\* rows.reduce((s, r) => s + (parseFloat(r[key]) || 0), 0), 0 without a key
RECURSIVE SumRows(_, _)
SumRows(rows, key) ==
    IF rows = <<>> THEN Zero
    ELSE AddNum(SumRows(SubSeq(rows, 1, Len(rows) - 1), key),
                NumOrZero(ObjGet(rows[Len(rows)], key)))

sumField(rows, key) == IF Falsy(key) THEN Zero ELSE SumRows(rows, key)

-----------------------------------------------------------------------------
(* Orderings used by the summaries.  Array.prototype.sort is stable: the    *)
(* element at position i of the input lands after every element that sorts  *)
(* before it and after every equal element that stood before it.            *)

\* the sequence that holds seq[i] at position rank[i]
Permuted(seq, rank) ==
    [p \in 1..Len(seq) |-> seq[CHOOSE i \in 1..Len(seq) : rank[i] = p]]

\* entries.sort((a, b) => b[1].length - a[1].length)
SortByCountDesc(entries) ==
    Permuted(entries,
        [i \in 1..Len(entries) |->
            1 + Cardinality({j \in 1..Len(entries) :
                    \/ Len(entries[j][2]) > Len(entries[i][2])
                    \/ (Len(entries[j][2]) = Len(entries[i][2]) /\ j < i)})])

\* the characters of the model in collation order (white space, punctuation,
\* symbols, digits, letters); letters differing only in case sort lower first
Collation ==
    <<" ", "_", "-", ",", "!", ".", "/", "#", "+", "$", "Rs",
      "0", "1", "2", "3", "4", "5", "6", "7", "8", "9">> \o LowerCase

CollationRank(c) ==
    LET l == LowerChar(c)
    IN  IF \E i \in 1..Len(Collation) : Collation[i] = l
        THEN CHOOSE i \in 1..Len(Collation) : Collation[i] = l
        ELSE Len(Collation) + 1

RECURSIVE PrimaryLess(_, _)
PrimaryLess(a, b) ==
    IF b = <<>> THEN FALSE
    ELSE IF a = <<>> THEN TRUE
    ELSE IF CollationRank(Head(a)) # CollationRank(Head(b))
    THEN CollationRank(Head(a)) < CollationRank(Head(b))
    ELSE PrimaryLess(Tail(a), Tail(b))

IsLowerCaseChar(c) == LowerChar(c) = c

RECURSIVE CaseLess(_, _)
CaseLess(a, b) ==
    IF a = <<>> \/ b = <<>> THEN FALSE
    ELSE IF Head(a) # Head(b) THEN IsLowerCaseChar(Head(a))
    ELSE CaseLess(Tail(a), Tail(b))

\* a.localeCompare(b) < 0
LocaleLess(a, b) ==
    \/ PrimaryLess(a, b)
    \/ (~PrimaryLess(b, a) /\ CaseLess(a, b))

\* entries.sort((a, b) => a[0].localeCompare(b[0]))
SortByKeyAsc(entries) ==
    Permuted(entries,
        [i \in 1..Len(entries) |->
            1 + Cardinality({j \in 1..Len(entries) :
                    \/ LocaleLess(entries[j][1], entries[i][1])
                    \/ (~LocaleLess(entries[i][1], entries[j][1]) /\ j < i)})])

\* [...data].sort((a, b) => (parseFloat(b[key]) || 0) - (parseFloat(a[key]) || 0))
SortByValueDesc(data, key) ==
    Permuted(data,
        [i \in 1..Len(data) |->
            1 + Cardinality({j \in 1..Len(data) :
                    LET vi == NumOrZero(ObjGet(data[i], key))
                        vj == NumOrZero(ObjGet(data[j], key))
                    IN  \/ GreaterNum(vj, vi)
                        \/ (~GreaterNum(vi, vj) /\ j < i)})])

\* sorted.slice(0, n)
Slice0(seq, n) == SubSeq(seq, 1, IF n < Len(seq) THEN n ELSE Len(seq))

\* [a, b, ...].filter(Boolean)
Truthy(seq) == SelectSeq(seq, LAMBDA v : ~Falsy(v))

-----------------------------------------------------------------------------
(* The context document: the text dataToContext returns, as its lines.  A   *)
(* line is its kind, its fixed heading, and the values interpolated in it.  *)

Line(kind, head, text, n, amount, cells) ==
    [kind |-> kind, head |-> head, text |-> text, n |-> n, amount |-> amount,
     cells |-> cells, issues |-> <<>>]

NotesLine(issues) ==
    [kind |-> "notes", head |-> "Data notes", text |-> <<>>, n |-> 0,
     amount |-> <<>>, cells |-> <<>>, issues |-> issues]

S_dash == <<"-">>
S_NotSet == <<"N", "o", "t", " ", "s", "e", "t">>

TopN == 20
GenericColumns == 8

\* one line of a section: `- ${key}: ${rows.length} deals, value:
\* Rs${formatNum(total)}`, and for each column of `more` one further amount
GroupLine(head, e, amountCol, more) ==
    Line("group", head, e[1], Len(e[2]), formatNum(sumField(e[2], amountCol)),
         [i \in 1..Len(more) |-> formatNum(sumField(e[2], more[i]))])

\* one `if (col) { ... }` section of a summary: its heading and one line per
\* group (order: "insertion", "count" or "key"); threw when groupBy throws
SectionLines(g, head, order, amountCol, more) ==
    IF g.threw THEN [threw |-> TRUE, lines |-> <<>>]
    ELSE Only({[threw |-> FALSE,
                lines |-> <<Line("heading", head, <<>>, 0, <<>>, <<>>)>>
                              \o [i \in 1..Len(entries) |->
                                     GroupLine(head, entries[i], amountCol, more)]] :
               entries \in {IF order = "count" THEN SortByCountDesc(g.groups)
                            ELSE IF order = "key" THEN SortByKeyAsc(g.groups)
                            ELSE g.groups}})

Section(data, col, head, order, amountCol, more) ==
    IF Falsy(col) THEN [threw |-> FALSE, lines |-> <<>>]
    ELSE Only({SectionLines(g, head, order, amountCol, more) :
               g \in {groupBy(data, col)}})

\* the `By Closure Probability` lines print `${prob || 'Not set'}`
NotSetKeys(lines) ==
    [i \in 1..Len(lines) |->
        IF lines[i].kind = "group" /\ lines[i].text = <<>>
        THEN [lines[i] EXCEPT !.text = S_NotSet]
        ELSE lines[i]]

\* `${row._name || '-'} | ${vals.join(' | ')}` with vals = cols.map(c => row[c] ?? '-')
DetailRow(row, cols) ==
    Line("row", "",
         IF Falsy(ObjGet(row, K_name)) THEN S_dash ELSE ObjGet(row, K_name),
         0, <<>>,
         [c \in 1..Len(cols) |->
            IF IsNullish(ObjGet(row, cols[c])) THEN S_dash
            ELSE ObjGet(row, cols[c])])

buildDealsSummary(data, keys) ==
    LET statusCol == findCol(keys, {<<"d", "e", "a", "l", " ", "s", "t", "a", "t", "u", "s">>,
         <<"s", "t", "a", "t", "u", "s">>})
        valueCol == findCol(keys, {<<"m", "a", "s", "k", "e", "d", " ", "d", "e", "a", "l">>,
         <<"d", "e", "a", "l", " ", "v", "a", "l", "u", "e">>,
         <<"v", "a", "l", "u", "e">>})
        sectorCol == findCol(keys, {<<"s", "e", "c", "t", "o", "r">>})
        stageCol == findCol(keys, {<<"d", "e", "a", "l", " ", "s", "t", "a", "g", "e">>,
         <<"s", "t", "a", "g", "e">>})
        ownerCol == findCol(keys, {<<"o", "w", "n", "e", "r">>})
        probCol == findCol(keys, {<<"p", "r", "o", "b", "a", "b", "i", "l", "i", "t", "y">>,
         <<"c", "l", "o", "s", "u", "r", "e", " ", "p", "r", "o", "b">>})
        byStatus == Section(data, statusCol, "By Deal Status", "insertion", valueCol, <<>>)
        bySector == Section(data, sectorCol, "By Sector", "count", valueCol, <<>>)
        byStage == Section(data, stageCol, "By Deal Stage", "key", valueCol, <<>>)
        byOwner == Section(data, ownerCol, "By Owner", "count", valueCol, <<>>)
        byProb == Section(data, probCol, "By Closure Probability", "insertion", valueCol, <<>>)
        cols == Truthy(<<statusCol, valueCol, sectorCol, stageCol, ownerCol, probCol>>)
        sorted == SortByValueDesc(data, valueCol)
        top == Slice0(sorted, TopN)
    IN  IF byStatus.threw \/ bySector.threw \/ byStage.threw \/ byOwner.threw
            \/ byProb.threw
        THEN [threw |-> TRUE, lines |-> <<>>]
        ELSE [threw |-> FALSE,
              lines |->
                <<Line("heading", "AGGREGATED SUMMARY", <<>>, 0, <<>>, <<>>)>>
                \o byStatus.lines \o bySector.lines \o byStage.lines
                \o byOwner.lines \o NotSetKeys(byProb.lines)
                \o <<Line("heading", "TOP 20 DEALS BY VALUE", <<>>, 0, <<>>, <<>>),
                     Line("columns", "Name", <<>>, 0, <<>>, cols)>>
                \o [i \in 1..Len(top) |-> DetailRow(top[i], cols)]]

\* a cell of the work-order table: '-' when nullish, formatNum(num) when it
\* parses to more than 1000, the value otherwise
WorkOrderCell(v) ==
    IF IsNullish(v) THEN S_dash
    ELSE LET pf == ParseFloat(v)
         IN  IF ~pf.nan /\ GreaterNum(NumOrZero(v), [m |-> 1000, k |-> 0])
             THEN formatNum(NumOrZero(v))
             ELSE v

\* ((a / b) * 100).toFixed(1) for b > 0
RatePercent(a, b) == ToFixed(a.m * Pow10(b.k) * 100, b.m * Pow10(a.k), 1)

\* the bindings amtIncl, billedIncl, typeCol, ownerCol, serialCol, woStatusCol,
\* billingStatusCol and datePoCol are computed by the source and used nowhere
buildWorkOrdersSummary(data, keys) ==
    LET execCol == findCol(keys, {<<"e", "x", "e", "c", "u", "t", "i", "o", "n", " ", "s", "t", "a", "t", "u", "s">>,
         <<"e", "x", "e", "c", "u", "t", "i", "o", "n">>})
        amtExcl == findCol(keys, {<<"a", "m", "o", "u", "n", "t", " ", "i", "n", " ", "r", "u", "p", "e", "e", "s", " ", "(", "e", "x", "c", "l">>,
         <<"a", "m", "o", "u", "n", "t", ".", "*", "e", "x", "c", "l">>})
        billedExcl == findCol(keys, {<<"b", "i", "l", "l", "e", "d", " ", "v", "a", "l", "u", "e", " ", "i", "n", " ", "r", "u", "p", "e", "e", "s", " ", "(", "e", "x", "c", "l">>,
         <<"b", "i", "l", "l", "e", "d", ".", "*", "e", "x", "c", "l">>})
        collectedCol == findCol(keys, {<<"c", "o", "l", "l", "e", "c", "t", "e", "d", " ", "a", "m", "o", "u", "n", "t">>,
         <<"c", "o", "l", "l", "e", "c", "t", "e", "d">>})
        receivableCol == findCol(keys, {<<"a", "m", "o", "u", "n", "t", " ", "r", "e", "c", "e", "i", "v", "a", "b", "l", "e">>,
         <<"r", "e", "c", "e", "i", "v", "a", "b", "l", "e">>})
        sectorCol == findCol(keys, {<<"s", "e", "c", "t", "o", "r">>})
        natureCol == findCol(keys, {<<"n", "a", "t", "u", "r", "e", " ", "o", "f", " ", "w", "o", "r", "k">>,
         <<"n", "a", "t", "u", "r", "e">>})
        customerCol == findCol(keys, {<<"c", "u", "s", "t", "o", "m", "e", "r">>})
        totalAmt == sumField(data, amtExcl)
        totalBilled == sumField(data, billedExcl)
        totalCollected == sumField(data, collectedCol)
        totalReceivable == sumField(data, receivableCol)
        Total(head, n) == Line("total", head, <<>>, 0, formatNum(n), <<>>)
        overview ==
            <<Line("heading", "Financial Overview", <<>>, 0, <<>>, <<>>),
              Total("Total Order Value (Excl GST)", totalAmt),
              Total("Total Billed (Excl GST)", totalBilled),
              Total("Total Collected", totalCollected),
              Total("Total Receivable", totalReceivable)>>
            \o (IF GreaterNum(totalBilled, Zero)
                THEN <<Line("rate", "Collection Rate", <<>>, 0,
                            RatePercent(totalCollected, totalBilled), <<>>)>>
                ELSE <<>>)
            \o (IF GreaterNum(totalAmt, Zero)
                THEN <<Line("rate", "Billing Rate", <<>>, 0,
                            RatePercent(totalBilled, totalAmt), <<>>)>>
                ELSE <<>>)
        byExec == Section(data, execCol, "By Execution Status", "insertion",
                          amtExcl, <<>>)
        bySector == Section(data, sectorCol, "By Sector", "count",
                            amtExcl, <<collectedCol>>)
        cols == Truthy(<<customerCol, natureCol, execCol, sectorCol, amtExcl,
                         collectedCol, receivableCol>>)
        sorted == SortByValueDesc(data, amtExcl)
        top == Slice0(sorted, TopN)
    IN  IF byExec.threw \/ bySector.threw
        THEN [threw |-> TRUE, lines |-> <<>>]
        ELSE [threw |-> FALSE,
              lines |->
                <<Line("heading", "AGGREGATED SUMMARY", <<>>, 0, <<>>, <<>>)>>
                \o overview \o byExec.lines \o bySector.lines
                \o <<Line("heading", "TOP 20 WORK ORDERS BY VALUE", <<>>, 0, <<>>, <<>>),
                     Line("columns", "Name", <<>>, 0, <<>>, cols)>>
                \o [i \in 1..Len(top) |->
                        Line("row", "",
                             IF Falsy(ObjGet(top[i], K_name)) THEN S_dash
                             ELSE ObjGet(top[i], K_name),
                             0, <<>>,
                             [c \in 1..Len(cols) |->
                                WorkOrderCell(ObjGet(top[i], cols[c]))])]]

buildGenericCompact(data, keys) ==
    LET cols == Slice0(keys, GenericColumns)
    IN  [threw |-> FALSE,
         lines |->
            <<Line("heading", "DATA", <<>>, 0, <<>>, <<>>),
              Line("columns", "Name", <<>>, 0, <<>>, cols)>>
            \o [i \in 1..Len(data) |-> DetailRow(data[i], cols)]]

\* Object.keys(data[0]).filter(k => !k.startsWith('_'))
AllKeys(data) == ObjKeys(ValueEntries(data[1]))

HasKeyWith(keys, patterns) ==
    \E i \in 1..Len(keys) : \E p \in patterns : Includes(ToLowerCase(keys[i]), p)

IsDeals(keys) ==
    HasKeyWith(keys, {<<"d", "e", "a", "l">>,
         <<"c", "l", "o", "s", "u", "r", "e">>,
         <<"d", "e", "a", "l", " ", "s", "t", "a", "g", "e">>})

IsWorkOrders(keys) ==
    HasKeyWith(keys, {<<"e", "x", "e", "c", "u", "t", "i", "o", "n">>,
         <<"b", "i", "l", "l", "e", "d">>,
         <<"s", "e", "r", "i", "a", "l">>})

\* the `## ${boardName} (...)` line and the `Data notes:` line
HeaderLines(cleanedBoard) ==
    <<Line("header", "", cleanedBoard.boardName, cleanedBoard.stats.cleanedRows,
           cleanedBoard.stats.completeness, <<>>)>>
        \o (IF Len(cleanedBoard.qualityIssues) # 0
            THEN <<NotesLine(cleanedBoard.qualityIssues)>>
            ELSE <<>>)

\* an empty-board document that carries the data notes
EmptyDocument_WithNotes(cleanedBoard) ==
    <<Line("title", "", cleanedBoard.boardName, 0, <<>>, <<>>)>>
        \o (IF Len(cleanedBoard.qualityIssues) # 0
            THEN <<NotesLine(cleanedBoard.qualityIssues)>>
            ELSE <<>>)
        \o <<Line("nodata", "No data available.", <<>>, 0, <<>>, <<>>)>>

\* `## ${boardName}\nNo data available.\n`
EmptyDocument(cleanedBoard) ==
    <<Line("title", "", cleanedBoard.boardName, 0, <<>>, <<>>),
      Line("nodata", "No data available.", <<>>, 0, <<>>, <<>>)>>

\* the summary of a board that holds records, by the kind of the board
SummaryOf(data, allKeys) ==
    IF IsDeals(allKeys) THEN buildDealsSummary(data, allKeys)
    ELSE IF IsWorkOrders(allKeys) THEN buildWorkOrdersSummary(data, allKeys)
    ELSE buildGenericCompact(data, allKeys)

\* dataToContext(cleanedBoard): the document returned, or threw
dataToContext(cleanedBoard) ==
    IF Len(cleanedBoard.data) = 0
    THEN [threw |-> FALSE, doc |-> EmptyDocument(cleanedBoard)]
    ELSE Only({IF body.threw THEN [threw |-> TRUE, doc |-> <<>>]
               ELSE [threw |-> FALSE,
                     doc |-> HeaderLines(cleanedBoard) \o body.lines] :
               body \in {SummaryOf(cleanedBoard.data, AllKeys(cleanedBoard.data))}})

-----------------------------------------------------------------------------
(* Column titles and cell texts of the boards of the model *)

T_CreatedDate == <<"C", "r", "e", "a", "t", "e", "d", " ", "D", "a", "t", "e">>
T_DATE == <<"D", "A", "T", "E">>
T_DealValue == <<"D", "e", "a", "l", " ", "V", "a", "l", "u", "e">>
T_Amount == <<"A", "m", "o", "u", "n", "t">>
T_Billed == <<"B", "i", "l", "l", "e", "d">>
T_Collected == <<"C", "o", "l", "l", "e", "c", "t", "e", "d">>
T_Receivable == <<"R", "e", "c", "e", "i", "v", "a", "b", "l", "e">>
T_Status == <<"S", "t", "a", "t", "u", "s">>
T_Sector == <<"S", "e", "c", "t", "o", "r">>
T_DealStatus == <<"D", "e", "a", "l", " ", "S", "t", "a", "t", "u", "s">>
T_ExecutionStatus == <<"E", "x", "e", "c", "u", "t", "i", "o", "n", " ", "S", "t", "a", "t", "u", "s">>
T_AmountExcl == <<"A", "m", "o", "u", "n", "t", " ", "i", "n", " ", "R", "u", "p", "e", "e", "s", " ", "(", "E", "x", "c", "l", ")">>
T_CollectedAmount == <<"C", "o", "l", "l", "e", "c", "t", "e", "d", " ", "A", "m", "o", "u", "n", "t">>

S_Open == <<"O", "p", "e", "n">>
S_Won == <<"W", "o", "n">>
S_Mining == <<"M", "i", "n", "i", "n", "g">>
S_Rail == <<"R", "a", "i", "l">>
S_Completed == <<"C", "o", "m", "p", "l", "e", "t", "e", "d">>
S_Ongoing == <<"O", "n", "g", "o", "i", "n", "g">>
S_constructor == <<"c", "o", "n", "s", "t", "r", "u", "c", "t", "o", "r">>
S_valueOf == <<"v", "a", "l", "u", "e", "O", "f">>
S_Rs2000 == <<"Rs", " ", "2", ",", "0", "0", "0">>
S_300 == <<"3", "0", "0">>
S_120000 == <<"1", ",", "2", "0", ",", "0", "0", "0">>
S_5000 == <<"5", ",", "0", "0", "0">>
S_2000 == <<"2", ",", "0", "0", "0">>
S_12abc == <<"1", "2", "a", "b", "c">>
S_SlashDate == <<"0", "5", "/", "0", "3", "/", "2", "0", "2", "4">>
S_IsoDate == <<"2", "0", "2", "4", "-", "0", "3", "-", "0", "5">>
S_na == <<"n", "/", "a">>
S_Acme == <<"A", "c", "m", "e">>
S_Deals == <<"D", "e", "a", "l", "s">>
S_WorkOrders == <<"W", "o", "r", "k", " ", "O", "r", "d", "e", "r", "s">>
S_Tasks == <<"T", "a", "s", "k", "s">>

-----------------------------------------------------------------------------
(* The pipeline as its caller runs it (App.jsx, loadData): cleanBoardData   *)
(* on a board snapshot, then dataToContext on what it returned; the caller  *)
(* may load again, passing the same snapshot.                               *)

MaxItems == 2
MaxRuns == 2

\* a board layout: its name, its columns, and for each column the texts a
\* cell of it may hold, the first being the one an ordinary record holds
Col(id, title) == [id |-> id, title |-> title]

DealsLayout ==
    [name |-> S_Deals,
     columns |-> <<Col(<<"c", "1">>, T_DealStatus), Col(<<"c", "2">>, T_DealValue),
                   Col(<<"c", "3">>, T_Sector)>>,
     texts |-> <<<<S_Open, S_Won, <<>>, T_DealStatus, S_constructor>>,
                 <<S_Rs2000, S_300, <<>>, S_12abc, S_120000>>,
                 <<S_Mining, S_Rail, NULL>>>>]

WorkOrdersLayout ==
    [name |-> S_WorkOrders,
     columns |-> <<Col(<<"c", "1">>, T_ExecutionStatus), Col(<<"c", "2">>, T_AmountExcl),
                   Col(<<"c", "3">>, T_CollectedAmount)>>,
     texts |-> <<<<S_Completed, S_Ongoing, <<>>, S_valueOf>>,
                 <<S_5000, S_300, <<>>, T_AmountExcl>>,
                 <<S_2000, ErrorSentinel>>>>]

GenericLayout ==
    [name |-> S_Tasks,
     columns |-> <<Col(<<"n", "a", "m", "e">>, T_Name), Col(<<"c", "1">>, T_Status),
                   Col(<<"c", "2">>, T_CreatedDate)>>,
     texts |-> <<<<S_Acme>>,
                 <<S_Open, <<" ">>, T_Status>>,
                 <<S_SlashDate, S_IsoDate, S_na>>>>]

Layouts == {DealsLayout, WorkOrdersLayout, GenericLayout}

\* a column id the board's column list does not hold
UnknownId == <<"c", "9">>

\* another one, which names a member of Object.prototype
InheritedId == <<"c", "o", "n", "s", "t", "r", "u", "c", "t", "o", "r">>

Item(name, column_values) ==
    [id |-> <<"i", "1">>, name |-> name, column_values |-> column_values]

Field(id, text) == [id |-> id, text |-> text]

\* the fields of an ordinary record of the layout
BaseFields(L) ==
    [c \in 1..Len(L.columns) |-> Field(L.columns[c].id, L.texts[c][1])]

\* the records a board of the layout may hold: the ordinary record, named or
\* unnamed; the ordinary record with one cell holding another text; with its
\* last field absent, or all but its last; with a field of a column the board
\* does not list; the unnamed record whose first cell repeats its column's
\* title, or is empty; the record with no value in any cell, unnamed or
\* named; and the named one with a further, empty field of a column the board
\* does not list
ItemPool(L) ==
    {Item(n, BaseFields(L)) : n \in {S_Acme, <<>>}}
    \cup UNION {{Item(S_Acme, [BaseFields(L) EXCEPT
                                    ![c] = Field(L.columns[c].id, L.texts[c][a])]) :
                    a \in 1..Len(L.texts[c])} : c \in 1..Len(L.columns)}
    \cup {Item(S_Acme, SubSeq(BaseFields(L), 1, Len(L.columns) - 1)),
          Item(S_Acme, SubSeq(BaseFields(L), Len(L.columns), Len(L.columns)))}
    \cup {Item(S_Acme, Append(BaseFields(L), Field(id, S_Open))) :
                id \in {UnknownId, InheritedId}}
    \cup {Item(<<>>, [BaseFields(L) EXCEPT
                        ![1] = Field(L.columns[1].id, L.columns[1].title)])}
    \cup {Item(<<>>, [BaseFields(L) EXCEPT ![1] = Field(L.columns[1].id, <<>>)])}
    \cup {Item(n, [c \in 1..Len(L.columns) |-> Field(L.columns[c].id, <<>>)]) :
                n \in {<<>>, S_Acme}}
    \cup {Item(S_Acme, Append([c \in 1..Len(L.columns) |->
                                    Field(L.columns[c].id, <<>>)],
                                Field(UnknownId, <<>>)))}

AllFields == {"name", "columns", "items"}

Snapshot(L, items, lacking) ==
    [present |-> AllFields \ lacking, name |-> L.name, columns |-> L.columns,
     items |-> items]

\* the fields a snapshot may lack: none, or one of its three
Lackings == {{}} \cup {{f} : f \in AllFields}

\* the boards of a layout: whole ones of up to MaxItems records, and those of
\* at most one record lacking one field
IsBoardShape(n, lacking) == lacking = {} \/ n <= 1

NoContext == [threw |-> FALSE, doc |-> <<>>]
NoBoard == [Threw("") EXCEPT !.threw = FALSE]

\* no agent has been constructed
AgentIdle ==
    modelIndex = 0 /\ conversationHistory = <<>> /\ dataContext = "" /\ asks = <<>>

\* no cell is being normalised
NormIdle == cvText = <<>> /\ cvTitle = <<>> /\ cvOut = NULL /\ cvPc = "idle"

\* no completeness is being computed
StatsIdle ==
    statsMissing = 0 /\ statsTotal = 0 /\ statsCompleteness = <<>> /\ statsPc = "idle"

\* dataToContext has not been called on its own
SummaryIdle == sumBoard = NoBoard /\ sumDoc = NoContext /\ sumPc = "idle"

\* no fetch has been started
FetchIdle ==
    /\ fetchPages = <<>> /\ fetchRequests = <<>> /\ allItems = <<>>
    /\ cursor = NULL /\ fetchPc = "idle" /\ fetchResult = [kind |-> "none"]

\* the pipeline has not been started
PipelineIdle ==
    /\ dealsRaw = [present |-> {}, name |-> <<>>, columns |-> <<>>, items |-> <<>>]
    /\ dealsCleaned = NoBoard
    /\ dealsContext = NoContext
    /\ pc = "idle"
    /\ history = <<>>

\* the item a row was built from survives the row filter
Survives(item, colMap) ==
    LET row == RowOf(item, colMap)
    IN  ~(Falsy(ObjGet(row, K_name)) /\ AllEmpty(row)) /\ ~IsHeader(row)

\* a cleanBoardData that filters the snapshot's item list in place
boardDataAfterClean_InPlace(snapshot) ==
    IF ~HasField(snapshot, "columns") \/ ~HasField(snapshot, "items")
    THEN snapshot
    ELSE [snapshot EXCEPT !.items =
            SelectSeq(@, LAMBDA it : Survives(it, BuildColMap(snapshot.columns, <<>>)))]

\* the snapshot object once cleanBoardData(snapshot) has run: the function
\* reads it through forEach and map, which write nothing into it
boardDataAfterClean(snapshot) == snapshot

\* a dataToContext whose detail table sorts the data list itself
cleanedBoardAfterContext_SortedInPlace(board) ==
    IF Len(board.data) = 0 THEN board
    ELSE [board EXCEPT !.data =
            SortByValueDesc(@, findCol(AllKeys(@),
                {<<"d", "e", "a", "l", " ", "v", "a", "l", "u", "e">>,
                 <<"a", "m", "o", "u", "n", "t", " ", "i", "n", " ", "r", "u", "p", "e", "e", "s", " ", "(", "e", "x", "c", "l">>}))]

\* the cleaned board once dataToContext(board) has run: the sort works on a
\* copy, [...data], and nothing else writes
cleanedBoardAfterContext(board) == board

PipeInit ==
    /\ \E L \in Layouts, n \in 0..MaxItems, lacking \in Lackings :
            /\ IsBoardShape(n, lacking)
            /\ \E items \in [1..n -> ItemPool(L)] :
                    dealsRaw = Snapshot(L, items, lacking)
    /\ dealsCleaned = NoBoard
    /\ dealsContext = NoContext
    /\ pc = "start"
    /\ history = <<>>
    /\ NormIdle
    /\ StatsIdle
    /\ AgentIdle
    /\ SummaryIdle
    /\ FetchIdle

\* const cleaned = cleanBoardData(raw)
CleanBoardData ==
    /\ pc = "start"
    /\ dealsCleaned' = cleanBoardData(dealsRaw)
    /\ dealsRaw' = boardDataAfterClean(dealsRaw)
    /\ pc' = IF dealsCleaned'.threw THEN "failed" ELSE "cleaned"
    /\ UNCHANGED <<dealsContext, history>>
    /\ UNCHANGED <<nvars, svars, avars, uvars, fvars>>

\* dataToContext(cleaned)
DataToContext ==
    /\ pc = "cleaned"
    /\ dealsContext' = dataToContext(dealsCleaned)
    /\ dealsCleaned' = cleanedBoardAfterContext(dealsCleaned)
    /\ pc' = IF dealsContext'.threw THEN "failed" ELSE "rendered"
    /\ UNCHANGED <<dealsRaw, history>>
    /\ UNCHANGED <<nvars, svars, avars, uvars, fvars>>

\* the caller keeps the outcome and loads again from the same snapshot
LoadAgain ==
    /\ pc \in {"rendered", "failed"}
    /\ Len(history) + 1 < MaxRuns
    /\ history' = Append(history, [cleaned |-> dealsCleaned,
                                    context |-> dealsContext, pc |-> pc])
    /\ dealsCleaned' = NoBoard
    /\ dealsContext' = NoContext
    /\ pc' = "start"
    /\ UNCHANGED dealsRaw
    /\ UNCHANGED <<nvars, svars, avars, uvars, fvars>>

PipeNext == CleanBoardData \/ DataToContext \/ LoadAgain

SpecPipe == PipeInit /\ [][PipeNext]_vars

-----------------------------------------------------------------------------
(* The cell normaliser on its own: cleanValue applied to one raw text under *)
(* one column title.                                                        *)

MaxTextLen == 3


NormTitles ==
    {T_CreatedDate, T_DATE, T_DealValue, T_Amount, T_Billed, T_Collected,
     T_Receivable, T_Status}

\* the characters free texts are made of
TextAlphabet == {"0", "1", "5", ".", ",", "Rs", "$", " ", "a", "-"}

RECURSIVE TextsOfLen(_)
TextsOfLen(n) ==
    IF n = 0 THEN {<<>>}
    ELSE {t \o <<c>> : t \in TextsOfLen(n - 1), c \in TextAlphabet}

FreeTexts == UNION {TextsOfLen(n) : n \in 0..MaxTextLen}

\* day and month groups: one or two digits, and one of three digits
DateDigits == {"0", "1", "3"}
DateGroups ==
    {<<a>> : a \in DateDigits}
        \cup {<<a, b>> : a, b \in DateDigits}
        \cup {<<"1", "0", "3">>}
DateYears == {<<"2", "0", "2", "4">>, <<"2", "4">>}
DateInputSeps == {"/", "-", "."}

\* texts shaped like a numeric date: group, separator, group, separator, year
SlashDateTexts ==
    {d \o <<s1>> \o m \o <<s2>> \o y :
        d \in DateGroups, m \in DateGroups,
        s1 \in DateInputSeps, s2 \in DateInputSeps, y \in DateYears}

\* texts shaped like an ISO date, with or without something after it
IsoTexts ==
    {<<"2", "0", "2", "4">> \o <<s1>> \o m \o <<s2>> \o d \o suffix :
        m \in {<<"0", "3">>, <<"1", "3">>, <<"3">>},
        d \in {<<"0", "5">>, <<"3", "1">>, <<"5">>},
        s1 \in DateSeps, s2 \in DateSeps,
        suffix \in {<<>>, <<"T">>, <<" ", "1">>}}

\* a priced text of the shape the boards carry: Rs 1,25,000
RupeeText == <<"Rs", "1", ",", "2", "5", ",", "0", "0", "0">>

\* digits followed by letters
DigitsThenLetters == <<"1", "2", "a", "b", "c">>

NormTexts ==
    FreeTexts \cup SlashDateTexts \cup IsoTexts
        \cup {NULL, UNDEFINED, ErrorSentinel, RupeeText, DigitsThenLetters}

NormInit ==
    /\ cvText \in NormTexts
    /\ cvTitle \in NormTitles
    /\ cvOut = NULL
    /\ cvPc = "ready"
    /\ PipelineIdle
    /\ StatsIdle
    /\ AgentIdle
    /\ SummaryIdle
    /\ FetchIdle

\* one call of cleanValue(text, columnTitle)
CleanValueCall ==
    /\ cvPc = "ready"
    /\ cvOut' = cleanValue(cvText, cvTitle)
    /\ cvPc' = "done"
    /\ UNCHANGED <<cvText, cvTitle>>
    /\ UNCHANGED <<pvars, svars, avars, uvars, fvars>>

NormNext == CleanValueCall

SpecNorm == NormInit /\ [][NormNext]_vars

-----------------------------------------------------------------------------
(* The completeness of the quality report on its own: the expression of     *)
(* stats.completeness applied to one missingFields and one totalFields.     *)

MaxFields == 40

StatsInit ==
    /\ statsMissing \in 0..MaxFields
    /\ statsTotal \in 0..MaxFields
    /\ statsCompleteness = <<>>
    /\ statsPc = "ready"
    /\ PipelineIdle
    /\ NormIdle
    /\ AgentIdle
    /\ SummaryIdle
    /\ FetchIdle

\* completeness: totalFields ? (...).toFixed(1) : '100'
ComputeCompleteness ==
    /\ statsPc = "ready"
    /\ statsCompleteness' = completeness(statsMissing, statsTotal)
    /\ statsPc' = "done"
    /\ UNCHANGED <<statsMissing, statsTotal>>
    /\ UNCHANGED <<nvars, pvars, avars, uvars, fvars>>

StatsNext == ComputeCompleteness

SpecStats == StatsInit /\ [][StatsNext]_vars

-----------------------------------------------------------------------------
(* dataToContext on its own, on cleaned boards wide and long enough for     *)
(* every section of the summaries, the cut of the detail table at TopN      *)
(* records and the cut of the generic table at GenericColumns columns.      *)
(* The board passed in is what cleanBoardData returns for a snapshot.       *)

MaxRecords == 21
MaxPattern == 3

T_DealStage == <<"D", "e", "a", "l", " ", "S", "t", "a", "g", "e">>
T_Owner == <<"O", "w", "n", "e", "r">>
T_Probability == <<"C", "l", "o", "s", "u", "r", "e", " ", "P", "r", "o", "b", "a", "b", "i", "l", "i", "t", "y">>
S_7 == <<"7">>

\* a layout of these boards: its name, its columns, and for each column what
\* a record holds in it: its group key, its amount, or a fixed text
SumDealsLayout ==
    [name |-> S_Deals,
     columns |-> <<Col(<<"c", "1">>, T_DealStatus), Col(<<"c", "2">>, T_DealValue),
                   Col(<<"c", "3">>, T_Sector), Col(<<"c", "4">>, T_DealStage),
                   Col(<<"c", "5">>, T_Owner), Col(<<"c", "6">>, T_Probability)>>,
     holds |-> <<"key", "amount", "key", "key", "key", "key">>]

SumWorkOrdersLayout ==
    [name |-> S_WorkOrders,
     columns |-> <<Col(<<"c", "1">>, T_ExecutionStatus), Col(<<"c", "2">>, T_AmountExcl),
                   Col(<<"c", "3">>, T_Sector)>>,
     holds |-> <<"key", "amount", "key">>]

WideLayout ==
    [name |-> S_Tasks,
     columns |-> [c \in 1..9 |-> Col(<<"c", DigitChar(c)>>, <<"T", DigitChar(c)>>)],
     holds |-> [c \in 1..9 |-> IF c = 1 THEN "key" ELSE IF c = 2 THEN "amount"
                                ELSE "text"]]

SumLayouts == {SumDealsLayout, SumWorkOrdersLayout, WideLayout}

\* what a record holds: a group key and an amount, or no amount field at all
Cell(key, amount, lacksAmount) ==
    [key |-> key, amount |-> amount, lacksAmount |-> lacksAmount]

SumCells ==
    {Cell(S_Open, S_Rs2000, FALSE), Cell(S_Won, S_300, FALSE),
     Cell(S_7, S_Rs2000, FALSE), Cell(<<>>, <<>>, FALSE),
     Cell(S_Won, <<>>, TRUE)}

\* the i-th record of a board: its name tells its place in the item list
SumItem(L, i, cell) ==
    [id |-> <<"i">> \o NatToString(i),
     name |-> <<"r">> \o NatToString(i),
     column_values |->
        SelectSeq([c \in 1..Len(L.columns) |->
                      Field(L.columns[c].id,
                            IF L.holds[c] = "key" THEN cell.key
                            ELSE IF L.holds[c] = "amount" THEN cell.amount
                            ELSE S_Open)],
                  LAMBDA f : ~(cell.lacksAmount /\ f.id = <<"c", "2">>))]

\* the board of n records whose cells repeat a pattern
SumSnapshot(L, n, pattern) ==
    Snapshot(L, [i \in 1..n |-> SumItem(L, i, pattern[((i - 1) % Len(pattern)) + 1])],
             {})

\* the boards: short ones, of up to MaxPattern records of any cells, and long
\* ones, of TopN to MaxRecords records that alternate two cells
SummaryInit ==
    /\ \E L \in SumLayouts, n \in 0..MaxRecords :
         \/ /\ n <= MaxPattern
            /\ \E pattern \in [1..MaxPattern -> SumCells] :
                    sumBoard = cleanBoardData(SumSnapshot(L, n, pattern))
         \/ /\ n >= TopN
            /\ \E a \in SumCells, b \in SumCells :
                    sumBoard = cleanBoardData(SumSnapshot(L, n, <<a, b>>))
    /\ sumDoc = NoContext
    /\ sumPc = "ready"
    /\ PipelineIdle
    /\ NormIdle
    /\ StatsIdle
    /\ AgentIdle
    /\ FetchIdle

\* one call of dataToContext(cleanedBoard)
DataToContextCall ==
    /\ sumPc = "ready"
    /\ sumDoc' = dataToContext(sumBoard)
    /\ sumBoard' = cleanedBoardAfterContext(sumBoard)
    /\ sumPc' = "done"
    /\ UNCHANGED <<nvars, pvars, svars, avars, fvars>>

SummaryNext == DataToContextCall

SpecSummary == SummaryInit /\ [][SummaryNext]_vars

-----------------------------------------------------------------------------
(* The BI agent (BIAgent): ask, with its calls of the chat API and their    *)
(* outcomes, setDataContext and resetChat.  An ask is followed from await   *)
(* to await, so that calls may overlap.                                     *)

MaxAsks == 2

MODELS == <<"llama-3.3-70b-versatile", "llama-3.1-8b-instant">>

\* MODELS[this.modelIndex], the index counting from 0
CurrentModel(index) == MODELS[index + 1]

\* the messages an error of the API call may carry
E_rate == <<"r", "a", "t", "e", " ", "l", "i", "m", "i", "t">>
E_auth == <<"i", "n", "v", "a", "l", "i", "d", " ", "a", "p", "i", " ", "k", "e", "y">>
E_context == <<"c", "o", "n", "t", "e", "x", "t", " ", "l", "e", "n", "g", "t", "h", " ", "e", "x", "c", "e", "e", "d", "e", "d">>
E_tokens == <<"t", "o", "k", "e", "n", " ", "l", "i", "m", "i", "t", " ", "r", "e", "a", "c", "h", "e", "d">>
E_other == <<"s", "e", "r", "v", "e", "r", " ", "e", "r", "r", "o", "r">>
ApiErrors == {E_rate, E_auth, E_context, E_tokens, E_other, <<>>}

\* msg.includes('429') || msg.includes('rate') || ...
IsRateLimit(msg) ==
        \/ Includes(msg, <<"4", "2", "9">>)
        \/ Includes(msg, <<"r", "a", "t", "e">>)
        \/ Includes(msg, <<"l", "i", "m", "i", "t">>)
        \/ Includes(msg, <<"q", "u", "o", "t", "a">>)

\* msg.includes('401') || msg.includes('auth') || msg.includes('invalid')
IsAuthError(msg) ==
        \/ Includes(msg, <<"4", "0", "1">>)
        \/ Includes(msg, <<"a", "u", "t", "h">>)
        \/ Includes(msg, <<"i", "n", "v", "a", "l", "i", "d">>)

\* msg.includes('context') || msg.includes('token') || msg.includes('length')
IsContextTooLong(msg) ==
        \/ Includes(msg, <<"c", "o", "n", "t", "e", "x", "t">>)
        \/ Includes(msg, <<"t", "o", "k", "e", "n">>)
        \/ Includes(msg, <<"l", "e", "n", "g", "t", "h">>)

\* { role, content }: the content of a user message is the question of an
\* ask, that of an assistant message the reply the API gave to an ask
Entry(role, a) == [role |-> role, content |-> a]

\* what ask returns: the promise resolved with { success: true, message },
\* the message given by its kind and the values interpolated in it
Resolved(kind, detail, model) ==
    [settled |-> "resolved", success |-> TRUE, kind |-> kind, detail |-> detail,
     model |-> model]

\* the promise rejected
Rejected(detail) ==
    [settled |-> "rejected", success |-> FALSE, kind |-> "", detail |-> detail,
     model |-> ""]

NoResult ==
    [settled |-> "pending", success |-> FALSE, kind |-> "", detail |-> <<>>,
     model |-> ""]

IdleAsk ==
    [pc |-> "idle", messages |-> [system |-> "", history |-> <<>>], model |-> "",
     msg |-> <<>>, calls |-> 0, result |-> NoResult]

\* a retry that lets its error escape
onRetryError_Rethrown(pcOfAsk, msg, retryMsg) == Rejected(retryMsg)

\* the catch blocks of the two retries
onRetryError(pcOfAsk, msg, retryMsg) ==
    IF pcOfAsk = "retryRate"
    THEN Resolved("rate-limit-all-models", <<>>, "")
    ELSE Resolved("error", Substring0(msg, 200), "")

\* new BIAgent(apiKey)
AgentInit ==
    /\ modelIndex = 0
    /\ conversationHistory = <<>>
    /\ dataContext = ""
    /\ asks = [a \in 1..MaxAsks |-> IdleAsk]
    /\ PipelineIdle
    /\ NormIdle
    /\ StatsIdle
    /\ SummaryIdle
    /\ FetchIdle

\* ask(userMessage) up to its first await: the user message is pushed, the
\* messages are built and the first request is sent
Ask(a) ==
    /\ asks[a].pc = "idle"
    /\ a > 1 => asks[a - 1].pc # "idle"
    /\ conversationHistory' = Append(conversationHistory, Entry("user", a))
    /\ asks' = [asks EXCEPT ![a] =
            [@ EXCEPT !.pc = "first",
                      !.messages = [system |-> dataContext,
                                    history |-> conversationHistory'],
                      !.model = CurrentModel(modelIndex),
                      !.calls = 1]]
    /\ UNCHANGED <<modelIndex, dataContext>>
    /\ UNCHANGED <<nvars, pvars, svars, uvars, fvars>>

\* the first request returns a reply
FirstCallReplies(a) ==
    /\ asks[a].pc = "first"
    /\ conversationHistory' = Append(conversationHistory, Entry("assistant", a))
    /\ asks' = [asks EXCEPT ![a] =
            [@ EXCEPT !.pc = "done", !.result = Resolved("reply", <<>>, "")]]
    /\ UNCHANGED <<modelIndex, dataContext>>
    /\ UNCHANGED <<nvars, pvars, svars, uvars, fvars>>

\* the first request throws an error with message msg: the catch block
FirstCallFails(a, msg) ==
    /\ asks[a].pc = "first"
    /\ IF IsRateLimit(msg)
       THEN IF modelIndex < Len(MODELS) - 1
            THEN /\ modelIndex' = modelIndex + 1
                 /\ asks' = [asks EXCEPT ![a] =
                        [@ EXCEPT !.pc = "retryRate", !.msg = msg,
                                  !.model = CurrentModel(modelIndex'),
                                  !.calls = @ + 1]]
            ELSE /\ modelIndex' = modelIndex
                 /\ asks' = [asks EXCEPT ![a] =
                        [@ EXCEPT !.pc = "done", !.msg = msg,
                                  !.result = Resolved("rate-limit", <<>>, "")]]
       ELSE /\ modelIndex' = modelIndex
            /\ asks' = [asks EXCEPT ![a] =
                  IF IsAuthError(msg)
                  THEN [@ EXCEPT !.pc = "done", !.msg = msg,
                                 !.result = Resolved("invalid-api-key", <<>>, "")]
                  ELSE IF IsContextTooLong(msg)
                  THEN [@ EXCEPT !.pc = "retryContext", !.msg = msg,
                                 !.messages =
                                    [@ EXCEPT !.history = <<@[Len(@)]>>],
                                 !.model = CurrentModel(modelIndex),
                                 !.calls = @ + 1]
                  ELSE [@ EXCEPT !.pc = "done", !.msg = msg,
                                 !.result = Resolved("error-processing-query",
                                                     Substring0(msg, 300), "")]]
    /\ UNCHANGED <<conversationHistory, dataContext>>
    /\ UNCHANGED <<nvars, pvars, svars, uvars, fvars>>

\* the retry returns a reply
RetryReplies(a) ==
    /\ asks[a].pc \in {"retryRate", "retryContext"}
    /\ IF asks[a].pc = "retryRate"
       THEN /\ conversationHistory' =
                    Append(conversationHistory, Entry("assistant", a))
            /\ asks' = [asks EXCEPT ![a] =
                  [@ EXCEPT !.pc = "done",
                            !.result = Resolved("switched-model", <<>>,
                                                CurrentModel(modelIndex))]]
       ELSE /\ conversationHistory' = <<Entry("user", a), Entry("assistant", a)>>
            /\ asks' = [asks EXCEPT ![a] =
                  [@ EXCEPT !.pc = "done", !.result = Resolved("reply", <<>>, "")]]
    /\ UNCHANGED <<modelIndex, dataContext>>
    /\ UNCHANGED <<nvars, pvars, svars, uvars, fvars>>

\* a retry that is tried once more when it fails
afterRetryError_RetryAgain(ask, retryMsg) ==
    IF ask.calls < 3 THEN [ask EXCEPT !.calls = @ + 1]
    ELSE [ask EXCEPT !.pc = "done",
                     !.result = onRetryError(ask.pc, ask.msg, retryMsg)]

\* the ask once its retry has thrown: both catch blocks return
afterRetryError(ask, retryMsg) ==
    [ask EXCEPT !.pc = "done",
                !.result = onRetryError(ask.pc, ask.msg, retryMsg)]

\* the retry throws an error with message retryMsg
RetryFails(a, retryMsg) ==
    /\ asks[a].pc \in {"retryRate", "retryContext"}
    /\ asks' = [asks EXCEPT ![a] = afterRetryError(asks[a], retryMsg)]
    /\ UNCHANGED <<modelIndex, conversationHistory, dataContext>>
    /\ UNCHANGED <<nvars, pvars, svars, uvars, fvars>>

\* a setDataContext that starts over with the first model
modelIndexAfterSetDataContext_Reset(index) == 0

\* this.modelIndex once setDataContext has run: the method writes dataContext
\* and conversationHistory only
modelIndexAfterSetDataContext(index) == index

\* setDataContext(dealsContext, workOrdersContext)
SetDataContext ==
    /\ dataContext' = "live data"
    /\ conversationHistory' = <<>>
    /\ modelIndex' = modelIndexAfterSetDataContext(modelIndex)
    /\ UNCHANGED asks
    /\ UNCHANGED <<nvars, pvars, svars, uvars, fvars>>

\* resetChat()
ResetChat ==
    /\ conversationHistory' = <<>>
    /\ modelIndex' = 0
    /\ UNCHANGED <<dataContext, asks>>
    /\ UNCHANGED <<nvars, pvars, svars, uvars, fvars>>

AgentNext ==
    \/ \E a \in 1..MaxAsks : Ask(a)
    \/ \E a \in 1..MaxAsks : FirstCallReplies(a)
    \/ \E a \in 1..MaxAsks : \E msg \in ApiErrors : FirstCallFails(a, msg)
    \/ \E a \in 1..MaxAsks : RetryReplies(a)
    \/ \E a \in 1..MaxAsks : \E msg \in ApiErrors : RetryFails(a, msg)
    \/ SetDataContext
    \/ ResetChat

SpecAgent == AgentInit /\ [][AgentNext]_vars

\* an awaited API call settles: fetch resolves or rejects, and the await
\* resumes the ask
CallSettles(a) ==
    \/ FirstCallReplies(a)
    \/ \E msg \in ApiErrors : FirstCallFails(a, msg)
    \/ RetryReplies(a)
    \/ \E msg \in ApiErrors : RetryFails(a, msg)

SpecAgentFair ==
    AgentInit /\ [][AgentNext]_vars /\ \A a \in 1..MaxAsks : WF_vars(CallSettles(a))

-----------------------------------------------------------------------------
(* The board fetch (MondayClient.fetchBoardData, src/src/lib/monday.js): the *)
(* first query, then one query per cursor until a page carries none.  The    *)
(* server is the list of its pages, each with its items and the cursor it    *)
(* hands out; the cursor of the last page is null, or leads back to a page   *)
(* already served.  A cursor of the server is a non-empty string.  Any       *)
(* request may be answered with an HTTP error or with GraphQL errors.  The   *)
(* fetch is followed up to its MaxRequests-th query, which is more than any  *)
(* board of the model needs when its last cursor is null.                    *)

MaxPages == 3
MaxPageItems == 2
MaxRequests == 5

\* the cursor that leads to page k
CursorTo(k) == <<"c">> \o NatToString(k)

\* the i-th item of page k; the items of a board are distinct
PageItem(k, i) ==
    [id |-> NatToString(10 * k + i), name |-> <<"r">>, column_values |-> <<>>]

\* the pages of a board: sizes[k] items on page k, each page handing out the
\* cursor to the next one and the last page handing out lastCursor
ServerPages(sizes, lastCursor) ==
    [k \in 1..Len(sizes) |->
        [items |-> [i \in 1..sizes[k] |-> PageItem(k, i)],
         cursor |-> IF k < Len(sizes) THEN CursorTo(k + 1) ELSE lastCursor]]

\* the page a cursor leads to
PageAt(pages, c) == CHOOSE k \in 1..Len(pages) : CursorTo(k) = c

\* the request of the first query, which carries no cursor
FirstQuery == <<"b", "o", "a", "r", "d", "s">>

BoardName == <<"D", "e", "a", "l", "s">>

\* the responses that make query throw: one that is not ok, and one whose
\* body carries errors
FailedResponses ==
    { [ok |-> FALSE, status |-> 500, text |-> <<"d", "o", "w", "n">>],
      [ok |-> FALSE, status |-> 401, text |-> <<>>],
      [ok |-> TRUE, errors |-> << <<"b", "u", "d", "g", "e", "t">> >>] }

\* the error query throws on such a response
queryError(response) ==
    IF ~response.ok
    THEN [message |-> "Monday.com API error", status |-> response.status,
          text |-> response.text]
    ELSE [message |-> "Monday.com GraphQL", errors |-> response.errors]

\* the items once a page has come, in the order the spread of the first
\* leaves them: the page in front
appendPage_InFront(items, page) == page.items \o items

\* allItems = [...allItems, ...nextData.next_items_page.items]
appendPage(items, page) == items \o page.items

\* the while test and what follows it, with the items and the cursor at hand:
\* the next query is sent, or the board is returned
LoopOrReturn(items, c) ==
    /\ allItems' = items
    /\ cursor' = c
    /\ IF ~Falsy(c)
       THEN /\ fetchRequests' = Append(fetchRequests, c)
            /\ fetchPc' = "awaitNext"
            /\ UNCHANGED fetchResult
       ELSE /\ fetchPc' = "returned"
            /\ fetchResult' = [kind |-> "board", name |-> BoardName,
                               columns |-> DealsLayout.columns, items |-> items]
            /\ UNCHANGED fetchRequests

FetchInit ==
    /\ \E n \in 0..MaxPages :
         \E sizes \in [1..n -> 0..MaxPageItems] :
           \E lastCursor \in {NULL} \cup {CursorTo(k) : k \in 1..n} :
                fetchPages = ServerPages(sizes, lastCursor)
    /\ fetchRequests = <<>> /\ allItems = <<>> /\ cursor = NULL
    /\ fetchPc = "ready" /\ fetchResult = [kind |-> "none"]
    /\ PipelineIdle /\ NormIdle /\ StatsIdle /\ AgentIdle /\ SummaryIdle

\* fetchBoardData is called and sends the first query
FetchBoardData ==
    /\ fetchPc = "ready"
    /\ fetchRequests' = <<FirstQuery>>
    /\ fetchPc' = "awaitFirst"
    /\ UNCHANGED <<fetchPages, allItems, cursor, fetchResult>>
    /\ UNCHANGED <<nvars, pvars, svars, avars, uvars>>

\* the first query returns boards with no board in it
BoardNotFound ==
    /\ fetchPc = "awaitFirst"
    /\ fetchPages = <<>>
    /\ fetchPc' = "failed"
    /\ fetchResult' = [kind |-> "error",
                       error |-> [message |-> "Board not found"]]
    /\ UNCHANGED <<fetchPages, fetchRequests, allItems, cursor>>
    /\ UNCHANGED <<nvars, pvars, svars, avars, uvars>>

\* the first query returns the board with its first page
FirstPageArrives ==
    /\ fetchPc = "awaitFirst"
    /\ fetchPages # <<>>
    /\ LoopOrReturn(fetchPages[1].items, fetchPages[1].cursor)
    /\ UNCHANGED fetchPages
    /\ UNCHANGED <<nvars, pvars, svars, avars, uvars>>

\* the query of a next page returns it
NextPageArrives ==
    /\ fetchPc = "awaitNext"
    /\ Len(fetchRequests) < MaxRequests
    /\ LET page == fetchPages[PageAt(fetchPages, cursor)]
       IN  LoopOrReturn(appendPage(allItems, page), page.cursor)
    /\ UNCHANGED fetchPages
    /\ UNCHANGED <<nvars, pvars, svars, avars, uvars>>

\* a query throws, and fetchBoardData with it: the items at hand are dropped
QueryThrows ==
    /\ fetchPc \in {"awaitFirst", "awaitNext"}
    /\ Len(fetchRequests) < MaxRequests
    /\ \E response \in FailedResponses :
            fetchResult' = [kind |-> "error", error |-> queryError(response)]
    /\ fetchPc' = "failed"
    /\ UNCHANGED <<fetchPages, fetchRequests, allItems, cursor>>
    /\ UNCHANGED <<nvars, pvars, svars, avars, uvars>>

FetchNext ==
    \/ FetchBoardData
    \/ BoardNotFound
    \/ FirstPageArrives
    \/ NextPageArrives
    \/ QueryThrows

SpecFetch == FetchInit /\ [][FetchNext]_vars

\* an awaited query settles: it returns or throws
QuerySettles == BoardNotFound \/ FirstPageArrives \/ NextPageArrives \/ QueryThrows

SpecFetchFair == FetchInit /\ [][FetchNext]_vars /\ WF_vars(QuerySettles)

-----------------------------------------------------------------------------
(* Properties of the cell normaliser *)

\* the positions of the date separators of a text
SepPositions(text) == {i \in 1..Len(text) : text[i] \in {"/", "-"}}

\* text is D[D] sep M[M] sep YYYY: digits, cut by exactly two separators into
\* a group of one or two digits, another one, and four digits
IsDayMonthYear(text) ==
    /\ ~IsNullish(text)
    /\ \A i \in 1..Len(text) : text[i] \in Digits \cup {"/", "-"}
    /\ Cardinality(SepPositions(text)) = 2
    /\ LET p == CHOOSE i \in SepPositions(text) : \A j \in SepPositions(text) : i <= j
           q == CHOOSE i \in SepPositions(text) : \A j \in SepPositions(text) : j <= i
       IN  /\ p \in 2..3
           /\ q - p \in 2..3
           /\ Len(text) - q = 4

\* the day-first reading of such a text, as YYYY-MM-DD
DayFirstIso(text) ==
    LET p == CHOOSE i \in SepPositions(text) : \A j \in SepPositions(text) : i <= j
        q == CHOOSE i \in SepPositions(text) : \A j \in SepPositions(text) : j <= i
    IN  SubSeq(text, q + 1, Len(text)) \o <<"-">>
            \o ZeroPad(SubSeq(text, p + 1, q - 1), 2) \o <<"-">>
            \o ZeroPad(SubSeq(text, 1, p - 1), 2)

IsCurrencyDigits(text) ==
    /\ ~IsNullish(text)
    /\ \A i \in 1..Len(text) : text[i] \in Digits \cup {"Rs", "$", ",", " "}
    /\ \E i \in 1..Len(text) : text[i] \in Digits

\* C9: in a numeric column that is no date column, a value made of digits
\* with currency symbols, commas and white space is returned as the canonical
\* decimal string of the number its digits spell.
C9_CurrencyNumber ==
    (cvPc = "done" /\ IsNumericTitle(cvTitle) /\ ~IsDateTitle(cvTitle)
        /\ IsCurrencyDigits(cvText))
        => cvOut = NatToString(DigitsToNat(SelectSeq(cvText, LAMBDA c : c \in Digits)))

\* Rs 1,25,000 under 'Deal Value' has come back as 125000
C9_Witness ==
    /\ cvPc = "done"
    /\ cvTitle = T_DealValue
    /\ cvText = RupeeText
    /\ cvOut = <<"1", "2", "5", "0", "0", "0">>

\* s is, from its first character to its last, a decimal number
IsNumberText(s) ==
    LET body == IF s # <<>> /\ Head(s) \in {"+", "-"} THEN Tail(s) ELSE s
    IN  /\ \A i \in 1..Len(body) : body[i] \in Digits \cup {"."}
        /\ \E i \in 1..Len(body) : body[i] \in Digits
        /\ Cardinality({i \in 1..Len(body) : body[i] = "."}) <= 1

\* the cell holds text: cleanValue reaches its type-specific parsing
HoldsText(text) ==
    /\ ~IsNullish(text)
    /\ text # ErrorSentinel
    /\ Trim(text) # <<>>

\* C10: a cell that cannot be parsed as its column's type comes back as its
\* original trimmed text: in a numeric column any text that is not entirely a
\* number once currency symbols, commas and white space are stripped, in a
\* date column any text matching neither date pattern.
C10_UnparsableKept ==
    (cvPc = "done" /\ HoldsText(cvText)) =>
        /\ (IsDateTitle(cvTitle)
                /\ ~IsoPrefix(Trim(cvText)) /\ ~IsDayMonthYear(Trim(cvText)))
            => cvOut = Trim(cvText)
        /\ (~IsDateTitle(cvTitle) /\ IsNumericTitle(cvTitle)
                /\ ~IsNumberText(StripCurrency(Trim(cvText))))
            => cvOut = Trim(cvText)

-----------------------------------------------------------------------------
(* Properties of the pipeline *)

\* cleanBoardData has returned for the snapshot
CleanReturned ==
    \/ pc \in {"cleaned", "rendered"}
    \/ pc = "failed" /\ ~dealsCleaned.threw

\* C1: for every snapshot cleanBoardData accepts, the returned stats satisfy
\* cleanedRows + removedRows = totalRows, totalRows being the number of input
\* items and cleanedRows the length of the returned data list.
C1_RowCounts ==
    CleanReturned =>
        /\ dealsCleaned.stats.cleanedRows + dealsCleaned.stats.removedRows
                = dealsCleaned.stats.totalRows
        /\ dealsCleaned.stats.totalRows = Len(dealsRaw.items)
        /\ dealsCleaned.stats.cleanedRows = Len(dealsCleaned.data)

\* of two items, one was kept and one was removed as a header row
C1_Witness ==
    /\ pc = "cleaned"
    /\ dealsCleaned.stats.totalRows = 2
    /\ dealsCleaned.stats.cleanedRows = 1
    /\ dealsCleaned.stats.removedRows = 1
    /\ \E i \in 1..Len(dealsCleaned.qualityIssues) :
            dealsCleaned.qualityIssues[i].kind = "header-row"

Range(q) == {q[i] : i \in 1..Len(q)}

\* C2: every record cleanBoardData returns has, as its keys not starting with
\* '_', the board's column titles: each title the returned column list holds
\* is a key, and each key is a title of the board, however many fields the
\* item carried.
C2_KeyCompleteness ==
    CleanReturned =>
        \A r \in 1..Len(dealsCleaned.data) :
            LET keys == Range(ObjKeys(ValueEntries(dealsCleaned.data[r])))
            IN  /\ Range(dealsCleaned.columns) \subseteq keys
                /\ keys \subseteq {dealsRaw.columns[c].title :
                                        c \in 1..Len(dealsRaw.columns)}

\* the group sizes printed under one section heading, added up
RECURSIVE SectionTotal(_, _)
SectionTotal(lines, head) ==
    IF lines = <<>> THEN 0
    ELSE (IF Head(lines).kind = "group" /\ Head(lines).head = head
          THEN Head(lines).n ELSE 0)
         + SectionTotal(Tail(lines), head)

\* C3: for any record list and grouping column groupBy places every record in
\* exactly one group: dataToContext on a board that holds records returns, and
\* the group sizes of each aggregated section it prints add up to
\* stats.cleanedRows.
C3_GroupConservation ==
    (pc \in {"rendered", "failed"} /\ ~dealsCleaned.threw
            /\ Len(dealsCleaned.data) > 0) =>
        /\ ~dealsContext.threw
        /\ \A i \in 1..Len(dealsContext.doc) :
                dealsContext.doc[i].kind = "group" =>
                    SectionTotal(dealsContext.doc, dealsContext.doc[i].head)
                        = dealsCleaned.stats.cleanedRows

C5_MalformedRejected ==
    (pc # "start" /\ dealsRaw.present # AllFields) =>
        dealsCleaned.threw /\ pc = "failed"

\* the item holds, under a column of the board, that column's title
HoldsTitle(item, columns) ==
    \E k \in 1..Len(item.column_values) : \E c \in 1..Len(columns) :
        /\ item.column_values[k].id = columns[c].id
        /\ ~IsNullish(item.column_values[k].text)
        /\ Trim(item.column_values[k].text) = columns[c].title

\* the records of items that are the header records of the snapshot
RECURSIVE HeaderNames(_, _)
HeaderNames(items, columns) ==
    IF items = <<>> THEN <<>>
    ELSE (IF HoldsTitle(Head(items), columns)
          THEN <<IF Head(items).name = <<>> THEN S_empty ELSE Head(items).name>>
          ELSE <<>>)
         \o HeaderNames(Tail(items), columns)

\* the names the header-row issues carry, in the order of the issues
IssueNames(issues) ==
    LET hdr == SelectSeq(issues, LAMBDA q : q.kind = "header-row")
    IN  [i \in 1..Len(hdr) |-> hdr[i].item]

\* C6: a record holding, under some column, that column's title is dropped,
\* and each such drop appends exactly one 'Removed embedded header row' issue
\* naming the record, the name being 'empty' when the record has none.
C6_HeaderRowsDropped ==
    CleanReturned =>
        /\ IssueNames(dealsCleaned.qualityIssues)
                = HeaderNames(dealsRaw.items, dealsRaw.columns)
        /\ dealsCleaned.stats.removedRows
                >= Len(HeaderNames(dealsRaw.items, dealsRaw.columns))
        /\ \A r \in 1..Len(dealsCleaned.data) :
                \A k \in 1..Len(dealsCleaned.data[r]) :
                    dealsCleaned.data[r][k][1] \in Range(dealsCleaned.columns)
                        => dealsCleaned.data[r][k][2] # dealsCleaned.data[r][k][1]

\* a named and an unnamed header record were dropped, one issue each
C6_Witness ==
    /\ pc = "cleaned"
    /\ Len(dealsRaw.items) = 2
    /\ dealsRaw.items[1].name = S_Acme
    /\ dealsRaw.items[2].name = <<>>
    /\ Len(dealsCleaned.data) = 0
    /\ IssueNames(dealsCleaned.qualityIssues) = <<S_Acme, S_empty>>

\* C7: dataToContext on a cleaned board with no records returns the
\* board-name line followed by 'No data available.' and nothing else, whatever
\* the stats and the quality issues are.
C7_EmptyBoard ==
    (pc = "rendered" /\ Len(dealsCleaned.data) = 0) =>
        /\ Len(dealsContext.doc) = 2
        /\ dealsContext.doc[1].kind = "title"
        /\ dealsContext.doc[1].text = dealsCleaned.boardName
        /\ dealsContext.doc[2].kind = "nodata"

\* a board whose only records were removed, leaving issues, was rendered
C7_Witness ==
    /\ pc = "rendered"
    /\ Len(dealsCleaned.data) = 0
    /\ dealsCleaned.stats.removedRows = 2
    /\ Len(dealsCleaned.qualityIssues) > 0
    /\ Len(dealsContext.doc) = 2

-----------------------------------------------------------------------------
(* Properties of the quality report *)

\* text is an optional minus sign, digits, a point and one digit
IsOneDecimal(text) ==
    LET body == IF text # <<>> /\ Head(text) = "-" THEN Tail(text) ELSE text
    IN  /\ Len(body) >= 3
        /\ body[Len(body) - 1] = "."
        /\ AllDigits(SubSeq(body, 1, Len(body) - 2))
        /\ body[Len(body)] \in Digits
        /\ (Len(body) > 3 => body[1] # "0")

\* the number of tenths such a text spells
TenthsOf(text) ==
    LET neg == Head(text) = "-"
        body == IF neg THEN Tail(text) ELSE text
        t == 10 * DigitsToNat(SubSeq(body, 1, Len(body) - 2))
                + DigitVal(body[Len(body)])
    IN  IF neg THEN 0 - t ELSE t

\* C11: stats.completeness is (1 - missingFields / totalFields) x 100 rounded
\* to one decimal place: a text of one decimal whose tenths lie within half a
\* tenth of 1000 x (totalFields - missingFields) / totalFields; it is 100
\* when totalFields is 0, and 85.0 for totalFields = 40, missingFields = 6.
C11_Completeness ==
    statsPc = "done" =>
        /\ statsTotal = 0 => statsCompleteness = S_100
        /\ statsTotal # 0 =>
              /\ IsOneDecimal(statsCompleteness)
              /\ 2 * Abs(TenthsOf(statsCompleteness) * statsTotal
                            - 1000 * (statsTotal - statsMissing)) <= statsTotal
        /\ (statsTotal = 40 /\ statsMissing = 6)
              => statsCompleteness = <<"8", "5", ".", "0">>

\* 6 missing of 40 has been computed as 85.0
C11_Witness ==
    /\ statsPc = "done"
    /\ statsTotal = 40
    /\ statsMissing = 6
    /\ statsCompleteness = <<"8", "5", ".", "0">>

\* C25: in every quality report cleanBoardData returns, 0 <= missingFields
\* <= totalFields, so that completeness and the percentage of the
\* missing-fields note lie between 0 and 100, whatever fields the records
\* carry.
C25_MissingWithinTotal ==
    CleanReturned =>
        LET stats == dealsCleaned.stats
            notes == SelectSeq(dealsCleaned.qualityIssues,
                               LAMBDA q : q.kind = "missing-fields")
        IN  /\ 0 <= stats.missingFields
            /\ stats.missingFields <= stats.totalFields
            /\ stats.completeness # S_100 =>
                  /\ IsOneDecimal(stats.completeness)
                  /\ TenthsOf(stats.completeness) \in 0..1000
            /\ \A i \in 1..Len(notes) :
                  /\ IsOneDecimal(notes[i].pct)
                  /\ TenthsOf(notes[i].pct) \in 0..1000

\* C12: in every quality report cleanBoardData returns, totalFields is
\* cleanedRows multiplied by the number of distinct columns of the board.
C12_TotalFields ==
    CleanReturned =>
        dealsCleaned.stats.totalFields
            = dealsCleaned.stats.cleanedRows
                * Cardinality({dealsRaw.columns[c].id : c \in 1..Len(dealsRaw.columns)})

\* one of two records was removed and the report counts the fields of one
C12_Witness ==
    /\ pc = "cleaned"
    /\ dealsCleaned.stats.totalRows = 2
    /\ dealsCleaned.stats.cleanedRows = 1
    /\ dealsCleaned.stats.totalFields = 3

\* the fields of an item whose column id the board's column list lacks
UnlistedFields(item, columns) ==
    {k \in 1..Len(item.column_values) :
        \A c \in 1..Len(columns) : columns[c].id # item.column_values[k].id}

\* C13: a field whose column id is not in the board's column list is never
\* dropped: cleanBoardData does not fail on a board holding one, and the
\* cleaned record carries the field's value under the literal column id.
C13_UnlistedFieldKept ==
    (pc # "start" /\ dealsRaw.present = AllFields) =>
        /\ ~dealsCleaned.threw
        /\ Len(dealsCleaned.data) = Len(dealsRaw.items) =>
              \A i \in 1..Len(dealsRaw.items) :
                \A k \in UnlistedFields(dealsRaw.items[i], dealsRaw.columns) :
                    LET cv == dealsRaw.items[i].column_values[k]
                    IN  /\ ObjHas(dealsCleaned.data[i], cv.id)
                        /\ ObjGet(dealsCleaned.data[i], cv.id) = Trim(cv.text)

DealsRoles ==
    {[head |-> "By Deal Status",
      patterns |-> {<<"d", "e", "a", "l", " ", "s", "t", "a", "t", "u", "s">>,
                    <<"s", "t", "a", "t", "u", "s">>}],
     [head |-> "By Sector",
      patterns |-> {<<"s", "e", "c", "t", "o", "r">>}],
     [head |-> "By Deal Stage",
      patterns |-> {<<"d", "e", "a", "l", " ", "s", "t", "a", "g", "e">>,
                    <<"s", "t", "a", "g", "e">>}],
     [head |-> "By Owner",
      patterns |-> {<<"o", "w", "n", "e", "r">>}],
     [head |-> "By Closure Probability",
      patterns |-> {<<"p", "r", "o", "b", "a", "b", "i", "l", "i", "t", "y">>,
                    <<"c", "l", "o", "s", "u", "r", "e", " ", "p", "r", "o", "b">>}]}

\* those of the work-orders summary, the monetary roles of the financial
\* overview with the label of their total
WorkOrdersRoles ==
    {[head |-> "Total Order Value (Excl GST)",
      patterns |-> {<<"a", "m", "o", "u", "n", "t", " ", "i", "n", " ", "r", "u", "p", "e", "e", "s", " ", "(", "e", "x", "c", "l">>,
                    <<"a", "m", "o", "u", "n", "t", ".", "*", "e", "x", "c", "l">>}],
     [head |-> "Total Billed (Excl GST)",
      patterns |-> {<<"b", "i", "l", "l", "e", "d", " ", "v", "a", "l", "u", "e", " ", "i", "n", " ", "r", "u", "p", "e", "e", "s", " ", "(", "e", "x", "c", "l">>,
                    <<"b", "i", "l", "l", "e", "d", ".", "*", "e", "x", "c", "l">>}],
     [head |-> "Total Collected",
      patterns |-> {<<"c", "o", "l", "l", "e", "c", "t", "e", "d", " ", "a", "m", "o", "u", "n", "t">>,
                    <<"c", "o", "l", "l", "e", "c", "t", "e", "d">>}],
     [head |-> "Total Receivable",
      patterns |-> {<<"a", "m", "o", "u", "n", "t", " ", "r", "e", "c", "e", "i", "v", "a", "b", "l", "e">>,
                    <<"r", "e", "c", "e", "i", "v", "a", "b", "l", "e">>}],
     [head |-> "By Execution Status",
      patterns |-> {<<"e", "x", "e", "c", "u", "t", "i", "o", "n", " ", "s", "t", "a", "t", "u", "s">>,
                    <<"e", "x", "e", "c", "u", "t", "i", "o", "n">>}],
     [head |-> "By Sector",
      patterns |-> {<<"s", "e", "c", "t", "o", "r">>}]}

\* C15: when no column title matches a role's keywords the rendered document
\* holds no heading and no line of that role, for every role of the deals
\* summary and of the work-orders summary, the monetary roles included.
C15_MissingRoleOmitted ==
    (pc = "rendered" /\ Len(dealsCleaned.data) > 0) =>
        LET keys == AllKeys(dealsCleaned.data)
            Roles == IF IsDeals(keys) THEN DealsRoles
                     ELSE IF IsWorkOrders(keys) THEN WorkOrdersRoles
                     ELSE {}
        IN  \A role \in Roles :
                ~HasKeyWith(keys, role.patterns) =>
                    \A i \in 1..Len(dealsContext.doc) :
                        dealsContext.doc[i].head # role.head

-----------------------------------------------------------------------------
(* Properties of the BI agent *)

\* the kinds of message ask resolves with
MessageKinds ==
    {"reply", "switched-model", "rate-limit-all-models", "rate-limit",
     "invalid-api-key", "error", "error-processing-query"}

\* C16: ask never rejects on an API failure: whatever the outcomes of its API
\* calls, a finished ask has resolved with an object carrying a message, and
\* no ask is ever rejected.
C16_AskAlwaysResolves ==
    \A a \in 1..MaxAsks :
        /\ asks[a].result.settled # "rejected"
        /\ asks[a].pc = "done" =>
              /\ asks[a].result.settled = "resolved"
              /\ asks[a].result.success
              /\ asks[a].result.kind \in MessageKinds

\* an ask whose first call hit the rate limit and whose retry failed too has
\* resolved with the rate-limit message
C16_Witness ==
    /\ asks[1].pc = "done"
    /\ asks[1].calls = 2
    /\ asks[1].msg = E_rate
    /\ asks[1].result = Resolved("rate-limit-all-models", <<>>, "")

\* the first API call of the ask has thrown (its message is asks[a].msg)
FirstFailed(a) ==
    \/ asks[a].pc \in {"retryRate", "retryContext"}
    \/ asks[a].pc = "done" /\ (asks[a].calls = 2 \/ asks[a].result.kind # "reply")

\* C24: an ask whose first call fails with a context-too-long error (its
\* message mentions context, token or length, whatever else it says) retries
\* once, sending only the system prompt and its own user message, and a reply
\* to the retry makes conversationHistory that user message and the reply;
\* one that fails with a rate-limit error retries once, on the fallback model.
C24_ContextRetry ==
    /\ [](\A a \in 1..MaxAsks :
            /\ asks[a].calls <= 2
            /\ FirstFailed(a) =>
                /\ IsContextTooLong(asks[a].msg) =>
                      /\ asks[a].calls = 2
                      /\ asks[a].messages.history = <<Entry("user", a)>>
                /\ (IsRateLimit(asks[a].msg) /\ ~IsContextTooLong(asks[a].msg)
                        /\ asks[a].calls = 2) =>
                      /\ asks[a].model = MODELS[Len(MODELS)]
                      /\ asks[a].messages.history[Len(asks[a].messages.history)]
                            = Entry("user", a))
    /\ [][\A a \in 1..MaxAsks :
            (asks[a].pc = "retryContext" /\ asks'[a].pc = "done"
                /\ asks'[a].result.kind = "reply") =>
                    conversationHistory' = <<Entry("user", a), Entry("assistant", a)>>]_vars

\* no ask is waiting for an API call
NoCallInFlight == \A a \in 1..MaxAsks : asks[a].pc \in {"idle", "done"}

\* C27: whenever no call is in flight, conversationHistory is empty or
\* alternates user and assistant messages, from a user message to an
\* assistant message: no ask, failed or not, leaves a user message without
\* its reply.
C27_HistoryAlternates ==
    NoCallInFlight =>
        /\ Len(conversationHistory) % 2 = 0
        /\ \A i \in 1..Len(conversationHistory) :
                conversationHistory[i].role
                    = (IF i % 2 = 1 THEN "user" ELSE "assistant")

\* C28: modelIndex is always an index of MODELS; it changes only by going up
\* by one when the first call of an ask fails with a rate-limit error while a
\* later model remains, and by resetChat putting it back to 0; an ask started
\* later uses the model it stands on.
C28_ModelIndex ==
    /\ [](modelIndex \in 0..(Len(MODELS) - 1))
    /\ [][/\ modelIndex' # modelIndex =>
                \/ /\ modelIndex' = modelIndex + 1
                   /\ modelIndex < Len(MODELS) - 1
                   /\ \E a \in 1..MaxAsks :
                        /\ asks[a].pc = "first"
                        /\ asks'[a].pc = "retryRate"
                        /\ IsRateLimit(asks'[a].msg)
                \/ /\ modelIndex' = 0
                   /\ conversationHistory' = <<>>
                   /\ dataContext' = dataContext
                   /\ asks' = asks
          /\ \A a \in 1..MaxAsks :
                (asks[a].pc = "idle" /\ asks'[a].pc = "first") =>
                    /\ modelIndex' = modelIndex
                    /\ asks'[a].model = MODELS[modelIndex + 1]]_vars

\* the first ask was answered by the fallback model after a rate-limit error,
\* the data context was set since, and the second ask calls the fallback model
C28_Witness ==
    /\ modelIndex = 1
    /\ dataContext = "live data"
    /\ asks[1].pc = "done"
    /\ asks[1].result.kind = "switched-model"
    /\ asks[2].pc = "first"
    /\ asks[2].messages.system = "live data"
    /\ asks[2].model = MODELS[2]

\* C29: an ask makes at most two API calls, the first and at most one retry,
\* and then completes, whatever the outcomes of the calls: it waits for its
\* first call having made one call and for its retry having made two, the
\* outcome of a retry finishes it, and a started ask is finished in the end.
C29_AtMostTwoCalls ==
    /\ [](\A a \in 1..MaxAsks :
            /\ asks[a].calls \in 0..2
            /\ asks[a].pc = "idle" => asks[a].calls = 0
            /\ asks[a].pc = "first" => asks[a].calls = 1
            /\ asks[a].pc \in {"retryRate", "retryContext"} => asks[a].calls = 2
            /\ asks[a].pc = "done" => asks[a].result.settled # "pending")
    /\ [][\A a \in 1..MaxAsks :
            /\ asks'[a].calls >= asks[a].calls
            /\ (asks[a].pc \in {"retryRate", "retryContext"} /\ asks'[a] # asks[a])
                    => asks'[a].pc = "done"
            /\ asks[a].pc = "done" => asks'[a] = asks[a]]_vars
    /\ \A a \in 1..MaxAsks : (asks[a].pc # "idle") ~> (asks[a].pc = "done")

\* an ask has finished after two failed calls, and another after one call
C29_Witness ==
    /\ asks[1].pc = "done"
    /\ asks[1].calls = 2
    /\ asks[1].msg = E_context
    /\ asks[1].result.kind = "error"
    /\ asks[2].pc = "done"
    /\ asks[2].calls = 1
    /\ asks[2].result.kind = "error-processing-query"

-----------------------------------------------------------------------------
(* Properties of the row filter *)

\* the cell text cleans to no value
CleansToNothing(text) ==
    IsNullish(text) \/ text = ErrorSentinel \/ Trim(text) = <<>>

\* the item has no name and no value in any of its fields
IsBlankItem(item) ==
    /\ item.name = <<>> \/ IsNullish(item.name)
    /\ \A k \in 1..Len(item.column_values) :
            CleansToNothing(item.column_values[k].text)

\* the names of the items that are neither blank nor header records
RECURSIVE KeptNames(_, _)
KeptNames(items, columns) ==
    IF items = <<>> THEN <<>>
    ELSE (IF IsBlankItem(Head(items)) \/ HoldsTitle(Head(items), columns)
          THEN <<>> ELSE <<Head(items).name>>)
         \o KeptNames(Tail(items), columns)

\* the number of blank items
RECURSIVE BlankCount(_)
BlankCount(items) ==
    IF items = <<>> THEN 0
    ELSE (IF IsBlankItem(Head(items)) THEN 1 ELSE 0) + BlankCount(Tail(items))

\* C17: a record with no name whose values are all null or empty is dropped
\* by the empty-row rule: each such drop adds one to removedRows and no
\* per-row issue, and a named record is never dropped by that rule, even
\* when all its values are null.
C17_EmptyRowRule ==
    CleanReturned =>
        /\ dealsCleaned.stats.removedRows
                = BlankCount(dealsRaw.items)
                    + Len(HeaderNames(dealsRaw.items, dealsRaw.columns))
        /\ Len(SelectSeq(dealsCleaned.qualityIssues,
                         LAMBDA q : q.kind = "header-row"))
                = Len(HeaderNames(dealsRaw.items, dealsRaw.columns))
        /\ [r \in 1..Len(dealsCleaned.data) |-> ObjGet(dealsCleaned.data[r], K_name)]
                = KeptNames(dealsRaw.items, dealsRaw.columns)

\* of an unnamed and a named record without values the first was dropped,
\* leaving no per-row issue, and the second was kept
C17_Witness ==
    /\ pc = "cleaned"
    /\ Len(dealsRaw.items) = 2
    /\ IsBlankItem(dealsRaw.items[1])
    /\ dealsRaw.items[2].name = S_Acme
    /\ \A k \in 1..Len(dealsRaw.items[2].column_values) :
            dealsRaw.items[2].column_values[k].text = <<>>
    /\ dealsCleaned.stats.removedRows = 1
    /\ Len(dealsCleaned.data) = 1
    /\ \A i \in 1..Len(dealsCleaned.qualityIssues) :
            dealsCleaned.qualityIssues[i].kind # "header-row"

\* the kinds of the issues and the counts they state, in the order of the list
IssueShape(issues) ==
    [i \in 1..Len(issues) |-> <<issues[i].kind, issues[i].n, issues[i].total>>]

\* C18: qualityIssues holds the per-row header notes in the order the rows
\* were dropped, then the removed-rows note, present exactly when
\* removedRows > 0 and stating removedRows, then the missing-fields note,
\* present exactly when missingFields > 0.
C18_IssueOrder ==
    CleanReturned =>
        LET stats == dealsCleaned.stats
            names == HeaderNames(dealsRaw.items, dealsRaw.columns)
            issues == dealsCleaned.qualityIssues
        IN  /\ IssueShape(issues)
                    = [i \in 1..Len(names) |-> <<"header-row", 0, 0>>]
                        \o (IF stats.removedRows > 0
                            THEN <<<<"removed-rows", stats.removedRows, 0>>>>
                            ELSE <<>>)
                        \o (IF stats.missingFields > 0
                            THEN <<<<"missing-fields", stats.missingFields,
                                     stats.totalFields>>>>
                            ELSE <<>>)
            /\ \A i \in 1..Len(names) : issues[i].item = names[i]

\* a header note, the removed-rows note and the missing-fields note, in
\* that order
C18_Witness ==
    /\ pc = "cleaned"
    /\ IssueShape(dealsCleaned.qualityIssues)
            = <<<<"header-row", 0, 0>>, <<"removed-rows", 1, 0>>,
                <<"missing-fields", 1, 3>>>>

-----------------------------------------------------------------------------
(* Properties of the context document *)

\* the renderings the document was built by, told by the heading of the
\* table each one ends with
RenderedAs(doc) ==
    {k \in {"deals", "work-orders", "generic"} :
        \E i \in 1..Len(doc) :
            /\ doc[i].kind = "heading"
            /\ doc[i].head = (IF k = "deals" THEN "TOP 20 DEALS BY VALUE"
                              ELSE IF k = "work-orders"
                              THEN "TOP 20 WORK ORDERS BY VALUE"
                              ELSE "DATA")}

\* the titles of the board's columns
BoardTitles(columns) == [c \in 1..Len(columns) |-> columns[c].title]

\* C19: the board is rendered as pipeline-like if any column title matches
\* the deal keywords, otherwise as execution-like if any title matches the
\* execution keywords, otherwise as generic; exactly one rendering is used.
C19_BoardKind ==
    (pc = "rendered" /\ Len(dealsCleaned.data) > 0) =>
        RenderedAs(dealsContext.doc)
            = {IF IsDeals(BoardTitles(dealsRaw.columns)) THEN "deals"
               ELSE IF IsWorkOrders(BoardTitles(dealsRaw.columns)) THEN "work-orders"
               ELSE "generic"}

\* what a document shows of the bindings of roles to columns: the headings of
\* its sections and the columns of its table
BindingsOf(doc) ==
    [heads |-> {doc[i].head : i \in {j \in 1..Len(doc) : doc[j].kind = "heading"}},
     cols |-> {doc[i].cells : i \in {j \in 1..Len(doc) : doc[j].kind = "columns"}}]

\* the board of the same name and columns whose one record carries a field
\* of every column
FullBoard(snapshot) ==
    [snapshot EXCEPT !.items =
        <<Item(S_Acme, [c \in 1..Len(snapshot.columns) |->
                            Field(snapshot.columns[c].id, S_Open)])>>]

\* C26: the kind of the board and the columns bound to the roles depend on
\* the column titles only: a rendered board gets the kind and the bindings
\* of the board of the same columns whose first record carries every field.
C26_KindByTitles ==
    (pc = "rendered" /\ Len(dealsCleaned.data) > 0) =>
        LET other == dataToContext(cleanBoardData(FullBoard(dealsRaw))).doc
        IN  /\ RenderedAs(dealsContext.doc) = RenderedAs(other)
            /\ BindingsOf(dealsContext.doc) = BindingsOf(other)

\* the key a record is to be counted under: its value in the grouping column
\* when it has one, otherwise its name, otherwise 'Unknown'
ExpectedKey(row, col) ==
    IF ObjHas(row, col) /\ ObjGet(row, col) \notin {NULL, UNDEFINED, <<>>}
    THEN ObjGet(row, col)
    ELSE IF ObjGet(row, K_name) \notin {NULL, UNDEFINED, <<>>}
    THEN ObjGet(row, K_name)
    ELSE S_Unknown

\* the sections of the summary the board is rendered by
SectionRoles(keys) ==
    IF IsDeals(keys) THEN DealsRoles
    ELSE IF IsWorkOrders(keys)
    THEN {role \in WorkOrdersRoles : role.head \in {"By Execution Status", "By Sector"}}
    ELSE {}

\* C20: every record is counted under its value in the grouping column when
\* that value is present, otherwise under its name, otherwise under
\* 'Unknown': each section lists, for each such key, the number of records
\* having it, and no group has an empty or null key.
C20_GroupKey ==
    (pc = "rendered" /\ Len(dealsCleaned.data) > 0) =>
        LET data == dealsCleaned.data
            keys == AllKeys(data)
            doc == dealsContext.doc
        IN  \A role \in SectionRoles(keys) :
                HasKeyWith(keys, role.patterns) =>
                    LET col == findCol(keys, role.patterns)
                        lines == SelectSeq(doc, LAMBDA l :
                                    l.kind = "group" /\ l.head = role.head)
                    IN  /\ \A r \in 1..Len(data) :
                                \E i \in 1..Len(lines) :
                                    lines[i].text = ExpectedKey(data[r], col)
                        /\ \A i \in 1..Len(lines) :
                                /\ lines[i].text \notin {NULL, UNDEFINED, <<>>}
                                /\ lines[i].n = Cardinality({r \in 1..Len(data) :
                                        ExpectedKey(data[r], col) = lines[i].text})
                        /\ \A i, j \in 1..Len(lines) :
                                lines[i].text = lines[j].text => i = j

\* of two records without a deal status the unnamed one is counted under
\* 'Unknown' and the named one under its name
C20_Witness ==
    /\ pc = "rendered"
    /\ Len(dealsCleaned.data) = 2
    /\ \A r \in 1..2 : ObjGet(dealsCleaned.data[r], T_DealStatus) = NULL
    /\ \E i, j \in 1..Len(dealsContext.doc) :
            /\ dealsContext.doc[i].kind = "group"
            /\ dealsContext.doc[i].head = "By Deal Status"
            /\ dealsContext.doc[i].text = S_Unknown
            /\ dealsContext.doc[i].n = 1
            /\ dealsContext.doc[j].kind = "group"
            /\ dealsContext.doc[j].head = "By Deal Status"
            /\ dealsContext.doc[j].text = S_Acme
            /\ dealsContext.doc[j].n = 1

-----------------------------------------------------------------------------
(* Properties of dataToContext on its own *)

\* a document was returned for a board that holds records
SummaryReturned == sumPc = "done" /\ ~sumDoc.threw /\ Len(sumBoard.data) > 0

\* the place in the record list at which the key first occurs, 0 if nowhere
FirstSeen(data, col, k) ==
    LET at == {r \in 1..Len(data) : ExpectedKey(data[r], col) = k}
    IN  IF at = {} THEN 0 ELSE CHOOSE r \in at : \A q \in at : r <= q

\* the number of records counted under the key
CountOf(data, col, k) ==
    Cardinality({r \in 1..Len(data) : ExpectedKey(data[r], col) = k})

\* the group of key k1 is to be listed before the group of another key k2
ListedBefore(data, col, head, k1, k2) ==
    IF head \in {"By Sector", "By Owner"}
    THEN \/ CountOf(data, col, k1) > CountOf(data, col, k2)
         \/ /\ CountOf(data, col, k1) = CountOf(data, col, k2)
            /\ FirstSeen(data, col, k1) < FirstSeen(data, col, k2)
    ELSE IF head = "By Deal Stage"
    THEN LocaleLess(k1, k2)
    ELSE FirstSeen(data, col, k1) < FirstSeen(data, col, k2)

\* C21: the bullet lines of a section come in the order of the section: by
\* first occurrence of the key in the record list under 'By Deal Status',
\* 'By Closure Probability' and 'By Execution Status', numeric keys included;
\* by descending record count, ties by first occurrence, under 'By Sector'
\* and 'By Owner'; by ascending key under 'By Deal Stage'.
C21_GroupOrder ==
    SummaryReturned =>
        LET data == sumBoard.data
            keys == AllKeys(data)
            doc == sumDoc.doc
        IN  \A role \in SectionRoles(keys) :
                HasKeyWith(keys, role.patterns) =>
                    LET col == findCol(keys, role.patterns)
                        lines == SelectSeq(doc, LAMBDA l :
                                    l.kind = "group" /\ l.head = role.head)
                    IN  \A i, j \in 1..Len(lines) :
                            i < j => ListedBefore(data, col, role.head,
                                                  lines[i].text, lines[j].text)

\* the kind of a board, told by its column titles
KindOf(titles) ==
    IF IsDeals(titles) THEN "deals"
    ELSE IF IsWorkOrders(titles) THEN "work-orders"
    ELSE "generic"

\* the keywords of the numeric column the detail table of a kind is sorted by
NumericPatterns(kind) ==
    IF kind = "deals"
    THEN {<<"m", "a", "s", "k", "e", "d", " ", "d", "e", "a", "l">>,
          <<"d", "e", "a", "l", " ", "v", "a", "l", "u", "e">>,
          <<"v", "a", "l", "u", "e">>}
    ELSE {<<"a", "m", "o", "u", "n", "t", " ", "i", "n", " ", "r", "u", "p", "e", "e", "s", " ", "(", "e", "x", "c", "l">>,
          <<"a", "m", "o", "u", "n", "t", ".", "*", "e", "x", "c", "l">>}

\* the places in the record list of the records the table lists, in the
\* order of its lines (the records of these boards have distinct names)
ListedPlaces(doc, data) ==
    LET rows == SelectSeq(doc, LAMBDA l : l.kind = "row")
    IN  [i \in 1..Len(rows) |->
            CHOOSE r \in 0..Len(data) :
                \/ r > 0 /\ ObjGet(data[r], K_name) = rows[i].text
                \/ r = 0 /\ \A q \in 1..Len(data) :
                                ObjGet(data[q], K_name) # rows[i].text]

\* record r1 sorts before record r2: its parsed value is greater, or equal
\* with r1 standing earlier in the record list
SortsBefore(data, col, r1, r2) ==
    LET v1 == NumOrZero(ObjGet(data[r1], col))
        v2 == NumOrZero(ObjGet(data[r2], col))
    IN  GreaterNum(v1, v2) \/ (~GreaterNum(v2, v1) /\ r1 < r2)

\* C22: on a pipeline-like or execution-like board the detail table lists
\* min(20, record count) records, the first of the records sorted by
\* descending parsed value of the kind's numeric column, a missing or
\* unparsable value counting as 0 and equal values keeping their order.
C22_DetailTable ==
    (SummaryReturned /\ KindOf(sumBoard.columns) # "generic") =>
        LET data == sumBoard.data
            col == findCol(sumBoard.columns, NumericPatterns(KindOf(sumBoard.columns)))
            places == ListedPlaces(sumDoc.doc, data)
        IN  /\ Len(places) = (IF Len(data) < TopN THEN Len(data) ELSE TopN)
            /\ \A i \in 1..Len(places) : places[i] > 0
            /\ \A i, j \in 1..Len(places) :
                    i < j => SortsBefore(data, col, places[i], places[j])
            /\ \A r \in 1..Len(data) :
                    (\A i \in 1..Len(places) : places[i] # r) =>
                        \A i \in 1..Len(places) :
                            SortsBefore(data, col, places[i], r)

\* C23: the document of a generic board has no aggregated section, and its
\* table has one line per cleaned record, in the order of the record list,
\* showing the record's name and its values in the first 8 columns of the
\* board only, '-' standing for a missing value.
C23_GenericTable ==
    (SummaryReturned /\ KindOf(sumBoard.columns) = "generic") =>
        LET data == sumBoard.data
            shown == Slice0(sumBoard.columns, GenericColumns)
            rows == SelectSeq(sumDoc.doc, LAMBDA l : l.kind = "row")
        IN  /\ \A i \in 1..Len(sumDoc.doc) :
                    /\ sumDoc.doc[i].kind \in {"header", "notes", "heading", "columns", "row"}
                    /\ sumDoc.doc[i].kind = "heading" => sumDoc.doc[i].head = "DATA"
            /\ Len(rows) = Len(data)
            /\ \A r \in 1..Len(data) :
                    /\ rows[r].text = ObjGet(data[r], K_name)
                    /\ Len(rows[r].cells) = Len(shown)
                    /\ \A c \in 1..Len(shown) :
                            rows[r].cells[c] =
                                (IF ObjGet(data[r], shown[c]) \in {NULL, UNDEFINED}
                                 THEN S_dash ELSE ObjGet(data[r], shown[c]))

-----------------------------------------------------------------------------
(* Properties of the board fetch *)

\* the pages the first k queries are answered with, in order: page 1, then
\* the page each cursor handed out leads to
RECURSIVE PagesServed(_, _)
PagesServed(pages, k) ==
    IF k = 0 THEN <<>>
    ELSE IF k = 1 THEN <<1>>
    ELSE LET before == PagesServed(pages, k - 1)
         IN  Append(before, PageAt(pages, pages[before[k - 1]].cursor))

\* the items of the pages of a walk, one page after the other
RECURSIVE ItemsOfPages(_, _)
ItemsOfPages(pages, walk) ==
    IF walk = <<>> THEN <<>>
    ELSE pages[Head(walk)].items \o ItemsOfPages(pages, Tail(walk))

\* the queries answered with a page so far
Answered ==
    IF fetchPc = "returned" THEN Len(fetchRequests)
    ELSE IF fetchPc = "awaitNext" THEN Len(fetchRequests) - 1
    ELSE 0

\* the server hands out a null cursor on its last page
EndsWithNull == fetchPages # <<>> /\ fetchPages[Len(fetchPages)].cursor = NULL

\* C30: fetchBoardData sends one query per page, following the cursors, until
\* a page carries a null cursor, and then returns and sends nothing more; the
\* items it returns are those of the pages, page after page, each once; a
\* query that throws ends the fetch with that error and no items; and on a
\* server that hands out a null cursor the fetch ends.
C30_FetchAllPages ==
    /\ [](/\ fetchPc \in {"awaitNext", "returned"} =>
                LET walk == PagesServed(fetchPages, Answered)
                IN  /\ allItems = ItemsOfPages(fetchPages, walk)
                    /\ cursor = fetchPages[walk[Answered]].cursor
                    /\ fetchRequests =
                         [q \in 1..Len(fetchRequests) |->
                            IF q = 1 THEN FirstQuery
                            ELSE fetchPages[walk[q - 1]].cursor]
          /\ fetchPc = "awaitNext" => cursor # NULL
          /\ fetchPc = "returned" =>
                /\ cursor = NULL
                /\ Len(fetchRequests) = Len(fetchPages)
                /\ fetchResult.kind = "board"
                /\ fetchResult.items =
                      ItemsOfPages(fetchPages, [k \in 1..Len(fetchPages) |-> k])
                /\ \A i, j \in 1..Len(fetchResult.items) :
                      fetchResult.items[i] = fetchResult.items[j] => i = j
          /\ fetchPc = "failed" =>
                /\ fetchResult.kind = "error"
                /\ "items" \notin DOMAIN fetchResult
          /\ fetchResult.kind = "board" => fetchPc = "returned")
    /\ [][/\ fetchPc \in {"returned", "failed"} => UNCHANGED fvars
          /\ Len(fetchRequests') \in {Len(fetchRequests), Len(fetchRequests) + 1}
          /\ (fetchPc \in {"awaitFirst", "awaitNext"} /\ fetchPc' = "failed") =>
                \/ fetchResult'.error \in {queryError(r) : r \in FailedResponses}
                \/ fetchPages = <<>> /\ fetchPc = "awaitFirst"]_vars
    /\ (fetchPc = "awaitFirst" /\ EndsWithNull) ~> (fetchPc \in {"returned", "failed"})

\* a board of three pages has been fetched whole, its last page the fullest
C30_Witness ==
    /\ fetchPc = "returned"
    /\ Len(fetchPages) = MaxPages
    /\ Len(fetchRequests) = MaxPages
    /\ Len(fetchPages[1].items) = 1
    /\ Len(fetchPages[MaxPages].items) = MaxPageItems
    /\ Len(fetchResult.items) > MaxPageItems + 1

====
